---- MODULE Spec2Model ----
(***************************************************************************)
(* A model of the piri daemon's policy plugins.                            *)
(*                                                                         *)
(* Part 1: the scratchpad engine (src/src/plugins/scratchpads.rs) driven   *)
(* by ScratchpadToggle / ScratchpadAdd IPC requests, over a model of the   *)
(* compositor reached through src/src/niri.rs.                             *)
(* Part 2: the swallow plugin's event handling (src/src/plugins/swallow.rs)*)
(*                                                                         *)
(* Every compositor request may fail.  A handler runs to completion as one *)
(* action; which request fails, and when a launched window appears, are    *)
(* inputs of the action.                                                   *)
(***************************************************************************)
EXTENDS Integers, Sequences, FiniteSets, TLC

(***************************************************************************)
(* Values.  Strings that the code inspects (app_id, title) are sequences   *)
(* of characters, so that `contains` and `==` are computed.                *)
(***************************************************************************)
\* Option<String>::None
NoStr == << "<none>" >>
\* Option<u64>::None for a window id (ids are >= 1)
NoWin == 0
\* HashMap::get(name) = None, for a map whose values are Option<u64>
NoEntry == -1
Absent == "absent"
NoErr == "ok"

S_foot == << "f", "o", "o", "t" >>
S_vim == << "v", "i", "m" >>
S_vim_foot == << "v", "i", "m", ":", " ", "f", "o", "o", "t" >>
S_untitled == << "u", "n", "t", "i", "t", "l", "e", "d" >>
S_window_ == << "w", "i", "n", "d", "o", "w", "_" >>
DigitChars == << "0", "1", "2", "3", "4", "5", "6", "7", "8", "9" >>

\* u64::to_string
RECURSIVE to_string(_)
to_string(n) ==
    IF n < 10 THEN << DigitChars[n + 1] >>
    ELSE to_string(n \div 10) \o << DigitChars[(n % 10) + 1] >>

\* str::contains
Contains(s, p) ==
    \E i \in 0..(Len(s) - Len(p)) : SubSeq(s, i + 1, i + Len(p)) = p

(***************************************************************************)
(* Bounds of the model.                                                    *)
(***************************************************************************)
\* windows the compositor opens during a run (ids are never reused)
MaxWin == 3
WinIds == 1..MaxWin
\* workspace indices of the single output, in the compositor's order
WsIdxSeq == << 1, 2 >>
WsIdx == {WsIdxSeq[i] : i \in 1..Len(WsIdxSeq)}
\* the compositor's id of the workspace with index idx, and back
WsIdOf(idx) == idx + 10
IdxOfWsId(id) == CHOOSE i \in WsIdx : WsIdOf(i) = id

\* what each window is: app_id and title
AppIdOf(id) ==
    CASE id = 1 -> S_foot
      [] id = 2 -> S_vim
      [] id = 3 -> NoStr
      [] OTHER -> S_foot
TitleOf(id) ==
    CASE id = 1 -> S_foot
      [] id = 2 -> S_vim_foot
      [] id = 3 -> S_untitled
      [] OTHER -> S_foot

\* logical geometry of the focused output
Output == [width |-> 2560, height |-> 1440, x |-> 0, y |-> 0]
\* size of a freshly mapped window
NewWinSize == [w |-> 200, h |-> 100]

\* scratchpad names used in requests
Names == {"term", "pad", "ghost"}
Directions == {"fromTop", "fromBottom", "fromLeft", "fromRight"}

(***************************************************************************)
(* Config (src/src/config.rs).                                             *)
(***************************************************************************)
NoConfig == [direction |-> Absent, command |-> << >>, app_id |-> NoStr,
             size |-> << 0, 0 >>, margin |-> 0]
\* [scratchpads.term] of the config file
FileScratchpads ==
    [n \in Names |->
        IF n = "term"
        THEN [direction |-> "fromTop", command |-> S_foot, app_id |-> S_foot,
              size |-> << 50, 50 >>, margin |-> 10]
        ELSE NoConfig]
get_scratchpad(name) == FileScratchpads[name]
\* [piri.scratchpad] default_size = "75% 60%", default_margin = 50
default_size == << 75, 60 >>
default_margin == 50

\* ScratchpadConfig::parse_size: the two percentages as ratios; the model
\* keeps them as percentages and divides where the ratio is applied
parse_size(config) == config.size
\* (output as f64 * ratio) as u32
ScaleDim(dim, pct) == (dim * pct) \div 100

(***************************************************************************)
(* The machine a handler runs on: the manager's maps, the compositor's     *)
(* state, and the bookkeeping of one request (requests issued, the one     *)
(* that fails, the actions sent, the code points passed).                  *)
(*   window: [id, title, app_id, class, floating, workspace_id, x, y, w, h]*)
(***************************************************************************)
Ok(m) == m.err = NoErr
Fail(m, e) == IF Ok(m) THEN [m EXCEPT !.err = e] ELSE m
Mark(m, label) == [m EXCEPT !.path = Append(@, label)]
\* `let x = e?; rest`: the rest runs on the result of e unless e failed
Then(m, rest(_)) == IF Ok(m) THEN rest(m) ELSE m
\* `let x = e; rest`
Bind(m, rest(_)) == rest(m)

\* Socket::connect + send of one request: fails when it is the failing one
Req(m) ==
    IF ~Ok(m) THEN m
    ELSE IF m.n + 1 = m.failAt
         THEN [m EXCEPT !.n = @ + 1, !.err = "niri"]
         ELSE [m EXCEPT !.n = @ + 1]

\* Request::Action(a): the request, then the compositor's effect
SendAction(m, a, effect) ==
    Then(Req(m), LAMBDA m1 : [m1 EXCEPT !.windows = effect, !.acts = Append(@, a)])

WinIndex(windows, id) ==
    IF \E i \in 1..Len(windows) : windows[i].id = id
    THEN CHOOSE i \in 1..Len(windows) : windows[i].id = id
    ELSE 0
HasWindow(windows, id) == WinIndex(windows, id) # 0
WinById(windows, id) == windows[WinIndex(windows, id)]
MapWin(windows, id, f(_)) ==
    [i \in 1..Len(windows) |-> IF windows[i].id = id THEN f(windows[i]) ELSE windows[i]]

\* niri's list of workspaces: (id, idx, is_focused)
WorkspaceList(m) ==
    [i \in 1..Len(WsIdxSeq) |->
        [id |-> WsIdOf(WsIdxSeq[i]), idx |-> WsIdxSeq[i],
         is_focused |-> WsIdxSeq[i] = m.focused_ws]]

\* NiriIpc::get_windows: Windows, then Workspaces to map workspace_id to idx
get_windows(m) == Req(Req(m))
\* the Vec<Window> it returns: each window with `workspace` = idx.to_string()
ListWindows(wins) ==
    LET name(w) == IF \E i \in WsIdx : WsIdOf(i) = w.workspace_id
                   THEN to_string(IdxOfWsId(w.workspace_id))
                   ELSE NoStr
    IN [i \in 1..Len(wins) |->
            [id |-> wins[i].id, title |-> wins[i].title,
             app_id |-> wins[i].app_id, class |-> NoStr,
             floating |-> wins[i].floating,
             workspace_id |-> wins[i].workspace_id,
             workspace |-> name(wins[i]),
             x |-> wins[i].x, y |-> wins[i].y,
             w |-> wins[i].w, h |-> wins[i].h]]
WindowList(m) == ListWindows(m.windows)

\* NiriIpc::get_focused_workspace: Workspaces; the name is idx.to_string()
get_focused_workspace(m) == Req(m)
FocusedWorkspaceName(m) ==
    LET wss == WorkspaceList(m) IN
    IF \E i \in DOMAIN wss : wss[i].is_focused
    THEN to_string(wss[CHOOSE i \in DOMAIN wss : wss[i].is_focused].idx)
    ELSE << "1" >>

\* NiriIpc::get_focused_window_id: FocusedWindow; the value is m.focused_window
get_focused_window_id(m) == Req(m)
\* NiriIpc::get_focused_output: FocusedOutput
get_focused_output(m) == Req(m)

\* compositor: FocusWindow focuses the window and its workspace
FocusEffect(m, id) ==
    IF HasWindow(m.windows, id)
    THEN [m EXCEPT !.focused_window = id,
                   !.focused_ws = IdxOfWsId(WinById(m.windows, id).workspace_id)]
    ELSE m
focus_window(m, window_id) ==
    Then(SendAction(m, [a |-> "FocusWindow", id |-> window_id], m.windows),
         LAMBDA m1 : FocusEffect(m1, window_id))

\* compositor: a window made floating is placed at the centre of the output
FloatWin(w) ==
    IF w.floating THEN w
    ELSE [w EXCEPT !.floating = TRUE,
                   !.x = (Output.width - w.w) \div 2,
                   !.y = (Output.height - w.h) \div 2]
set_window_floating(m, window_id) ==
    SendAction(m, [a |-> "MoveWindowToFloating", id |-> window_id],
               MapWin(m.windows, window_id, FloatWin))

\* NiriIpc::move_window_to_monitor: FocusedOutput, then MoveWindowToMonitor
move_window_to_monitor(m, window_id) ==
    Bind(get_focused_output(m),
         LAMBDA m1 : SendAction(m1, [a |-> "MoveWindowToMonitor", id |-> window_id],
                                m1.windows))

\* NiriIpc::move_floating_window: to the focused monitor, then to the focused
\* workspace (by index, focus: false)
move_floating_window(m, window_id) ==
    Bind(get_focused_workspace(move_window_to_monitor(m, window_id)),
         LAMBDA m1 :
            LET ToWs(w) == [w EXCEPT !.workspace_id = WsIdOf(m1.focused_ws)]
            IN SendAction(m1, [a |-> "MoveWindowToWorkspace", id |-> window_id],
                          MapWin(m1.windows, window_id, ToWs)))

\* NiriIpc::move_window_relative: MoveFloatingWindow AdjustFixed(x), AdjustFixed(y)
move_window_relative(m, window_id, dx, dy) ==
    LET Shift(w) == [w EXCEPT !.x = @ + dx, !.y = @ + dy] IN
    SendAction(m, [a |-> "MoveFloatingWindow", id |-> window_id],
               MapWin(m.windows, window_id, Shift))

\* NiriIpc::resize_floating_window: SetWindowWidth, then SetWindowHeight
resize_floating_window(m, window_id, width, height) ==
    LET SetW(w) == [w EXCEPT !.w = width]
        SetH(w) == [w EXCEPT !.h = height]
    IN Then(SendAction(m, [a |-> "SetWindowWidth", id |-> window_id],
                       MapWin(m.windows, window_id, SetW)),
            LAMBDA m1 : SendAction(m1, [a |-> "SetWindowHeight", id |-> window_id],
                                   MapWin(m1.windows, window_id, SetH)))

\* fallback of get_output_dimensions
FallbackWidth == 1920
FallbackHeight == 1080
\* NiriIpc::get_output_dimensions: a failed query is not an error, the
\* dimensions fall back to 1920x1080
get_output_dimensions(m) ==
    IF ~Ok(m) THEN m
    ELSE Bind(get_focused_output(m),
              LAMBDA m1 :
                 IF Ok(m1) THEN [m1 EXCEPT !.dims = << Output.width, Output.height >>]
                 ELSE [m1 EXCEPT !.err = NoErr, !.fallback = TRUE,
                                 !.dims = << FallbackWidth, FallbackHeight >>])

\* the match of NiriIpc::find_window on one window
WindowMatches(w, pattern) ==
    \/ w.app_id # NoStr /\ w.app_id = pattern
    \/ w.class # NoStr /\ Contains(w.class, pattern)
    \/ Contains(w.title, pattern)
\* NiriIpc::find_window: the first window of the list that matches, or NoWin
RECURSIVE FirstMatch(_, _, _)
FirstMatch(windows, pattern, i) ==
    IF i > Len(windows) THEN NoWin
    ELSE IF WindowMatches(windows[i], pattern) THEN windows[i].id
    ELSE FirstMatch(windows, pattern, i + 1)
find_window(m) == get_windows(m)
FoundWindow(m, pattern) == FirstMatch(WindowList(m), pattern, 1)

\* NiriIpc::get_window_position: (x, y, w, h) of a floating window, or none
get_window_position(m, window_id) ==
    Then(get_windows(m),
         LAMBDA m1 :
            IF HasWindow(m1.windows, window_id) /\ WinById(m1.windows, window_id).floating
            THEN m1
            ELSE Fail(m1, "Failed to get window position"))

(***************************************************************************)
(* ScratchpadManager (src/src/plugins/scratchpads.rs).                     *)
(***************************************************************************)
\* ((a - b) / 2) as i32, the subtraction and division in u32 (wrapping)
half_diff(a, b) ==
    IF a >= b THEN (a - b) \div 2 ELSE 2147483647 - ((b - a - 1) \div 2)
\* (a - b - c) as i32, the subtractions in u32 (wrapping): two's complement
diff_as_i32(a, b, c) == a - b - c

\* ScratchpadManager::is_window_in_current_workspace
is_window_in_current_workspace(window, current_workspace) ==
    IF window.workspace # NoStr THEN window.workspace = current_workspace
    ELSE IF window.workspace_id # 0 THEN to_string(window.workspace_id) = current_workspace
    ELSE FALSE

\* ScratchpadManager::get_workspace_and_windows
get_workspace_and_windows(m) == get_windows(get_focused_workspace(m))

\* ScratchpadManager::calculate_position
calculate_position(direction, output_width, output_height, window_width, window_height, margin) ==
    CASE direction = "fromBottom" ->
            << half_diff(output_width, window_width),
               diff_as_i32(output_height, window_height, margin) >>
      [] direction = "fromLeft" ->
            << margin, half_diff(output_height, window_height) >>
      [] direction = "fromRight" ->
            << diff_as_i32(output_width, window_width, margin),
               half_diff(output_height, window_height) >>
      [] OTHER ->
            << half_diff(output_width, window_width), margin >>

\* ScratchpadManager::calculate_hide_position
calculate_hide_position(direction, output_width, output_height, window_width, window_height, margin) ==
    CASE direction = "fromBottom" ->
            << half_diff(output_width, window_width), output_height + margin >>
      [] direction = "fromLeft" ->
            << 0 - (window_width + margin), half_diff(output_height, window_height) >>
      [] direction = "fromRight" ->
            << output_width + margin, half_diff(output_height, window_height) >>
      [] OTHER ->
            << half_diff(output_width, window_width), 0 - (window_height + margin) >>

\* ScratchpadManager::move_window_to_position
move_window_to_position(m, window_id, current_x, current_y, target_x, target_y) ==
    move_window_relative(m, window_id, target_x - current_x, target_y - current_y)

\* ScratchpadManager::register_scratchpad
register_scratchpad(m, name, window_id, config) ==
    Then(get_windows(m), LAMBDA m1 :
    LET windows == WindowList(m1)
        original_workspace ==
            IF HasWindow(windows, window_id) /\ WinById(windows, window_id).workspace # NoStr
            THEN WinById(windows, window_id).workspace
            ELSE IF HasWindow(windows, window_id) /\ WinById(windows, window_id).workspace_id # 0
            THEN to_string(WinById(windows, window_id).workspace_id)
            ELSE << "1" >>
        size == parse_size(config)
        window_width == ScaleDim(Output.width, size[1])
        window_height == ScaleDim(Output.height, size[2])
    IN Then(get_window_position(
                resize_floating_window(
                    get_focused_output(
                        set_window_floating(
                            [m1 EXCEPT !.original_workspaces[name] = original_workspace],
                            window_id)),
                    window_id, window_width, window_height),
                window_id),
            LAMBDA m4 :
       LET cur == WinById(m4.windows, window_id)
           rel == calculate_hide_position(config.direction, Output.width, Output.height,
                                          window_width, window_height, config.margin)
       IN Then(move_window_to_position(m4, window_id, cur.x, cur.y,
                                       Output.x + rel[1], Output.y + rel[2]),
               LAMBDA m5 : Mark([m5 EXCEPT !.visibility[name] = "false",
                                           !.scratchpads[name] = window_id],
                                "registered"))))

\* a show that marks the slot visible before the window is in place
show_scratchpad_marks_first(m, window_id, name, config) ==
    focus_window(
        move_floating_window(
            set_window_floating([m EXCEPT !.visibility[name] = "true"], window_id),
            window_id),
        window_id)

\* ScratchpadManager::show_scratchpad
show_scratchpad(m, window_id, name, config) ==
    Then(get_output_dimensions(
             move_floating_window(set_window_floating(m, window_id), window_id)),
         LAMBDA m1 :
    LET size == parse_size(config)
        window_width == ScaleDim(m1.dims[1], size[1])
        window_height == ScaleDim(m1.dims[2], size[2])
        target == calculate_position(config.direction, m1.dims[1], m1.dims[2],
                                     window_width, window_height, config.margin)
    IN Then(get_window_position(
                resize_floating_window(m1, window_id, window_width, window_height),
                window_id),
            LAMBDA m2 :
       LET cur == WinById(m2.windows, window_id)
       IN focus_window(
              move_window_to_position(m2, window_id, cur.x, cur.y, target[1], target[2]),
              window_id)))

\* a hide that floats the window and leaves it where it is
hide_scratchpad_in_place(m, window_id, name, config) ==
    set_window_floating(m, window_id)

\* ScratchpadManager::hide_scratchpad
hide_scratchpad(m, window_id, name, config) ==
    Then(get_window_position(
             get_output_dimensions(set_window_floating(m, window_id)), window_id),
         LAMBDA m1 :
    LET cur == WinById(m1.windows, window_id)
        hide == calculate_hide_position(config.direction, m1.dims[1], m1.dims[2],
                                        cur.w, cur.h, config.margin)
    IN Then(move_window_to_position(m1, window_id, cur.x, cur.y, hide[1], hide[2]),
            LAMBDA m2 :
       LET previous_focused == m2.previous_focused_windows[name] IN
       IF previous_focused = NoWin THEN m2
       ELSE Then(get_workspace_and_windows(m2), LAMBDA m3 :
       LET current_workspace == FocusedWorkspaceName(m3)
           windows == WindowList(m3)
           InWs(w) == w.id # window_id
                      /\ is_window_in_current_workspace(w, current_workspace)
           current_workspace_windows == SelectSeq(windows, InWs)
       IN IF /\ previous_focused # NoEntry
             /\ HasWindow(windows, previous_focused)
             /\ is_window_in_current_workspace(WinById(windows, previous_focused),
                                               current_workspace)
          THEN focus_window(m3, previous_focused)
          ELSE IF Len(current_workspace_windows) > 0
          THEN focus_window(m3,
                   current_workspace_windows[(Len(current_workspace_windows) \div 2) + 1].id)
          ELSE m3)))

\* ScratchpadManager::toggle_window_visibility
toggle_window_visibility(m, window_id, name, config) ==
    IF ~Ok(m) THEN m ELSE
    IF m.visibility[name] = "true"
    THEN Then(get_workspace_and_windows(m), LAMBDA m1 :
         LET windows == WindowList(m1)
             in_current_workspace ==
                 /\ HasWindow(windows, window_id)
                 /\ is_window_in_current_workspace(WinById(windows, window_id),
                                                   FocusedWorkspaceName(m1))
         IN IF in_current_workspace
            THEN Then(hide_scratchpad(m1, window_id, name, config),
                      LAMBDA m2 : Mark([m2 EXCEPT !.visibility[name] = "false"], "hidden"))
            ELSE Then(hide_scratchpad(m1, window_id, name, config), LAMBDA m2 :
                 Then(get_focused_window_id(
                          Mark([m2 EXCEPT !.visibility[name] = "false"], "moved")),
                      LAMBDA m3 :
                 Then(show_scratchpad(
                          [m3 EXCEPT !.previous_focused_windows[name] = m3.focused_window],
                          window_id, name, config),
                      LAMBDA m4 : Mark([m4 EXCEPT !.visibility[name] = "true"], "shown")))))
    ELSE Then(show_scratchpad(m, window_id, name, config),
              LAMBDA m1 : Mark([m1 EXCEPT !.visibility[name] = "true"], "shown"))

\* a cleanup that forgets to drop the visibility entry
RemoveSlot_keeps_visibility(m, name) ==
    [m EXCEPT !.scratchpads[name] = NoWin,
              !.original_workspaces[name] = NoStr,
              !.previous_focused_windows[name] = NoEntry,
              !.dynamic_configs[name] = NoConfig]

\* the manager forgets a slot: all five maps drop the name
RemoveSlot(m, name) ==
    [m EXCEPT !.scratchpads[name] = NoWin,
              !.visibility[name] = Absent,
              !.original_workspaces[name] = NoStr,
              !.previous_focused_windows[name] = NoEntry,
              !.dynamic_configs[name] = NoConfig]

\* a window the compositor maps: tiled, on the focused workspace, focused
NewWindow(id, ws) ==
    [id |-> id, title |-> TitleOf(id), app_id |-> AppIdOf(id), floating |-> FALSE,
     workspace_id |-> WsIdOf(ws), x |-> 0, y |-> 0,
     w |-> NewWinSize.w, h |-> NewWinSize.h]
\* the launched (or any other) window appears just before poll number k
Arrive(m, k) ==
    IF Ok(m) /\ m.arrive.at = k
    THEN [m EXCEPT !.windows = Append(@, NewWindow(m.arrive.id, m.focused_ws)),
                   !.focused_window = m.arrive.id]
    ELSE m

\* a launch that runs the command twice
launch_application_twice(m, config) ==
    IF ~Ok(m) THEN m
    ELSE [m EXCEPT !.spawned = Append(Append(@, config.command), config.command)]

\* ScratchpadManager::launch_application: sh -c <command>, spawned once
launch_application(m, config) ==
    IF ~Ok(m) THEN m
    ELSE IF m.spawnFails THEN Fail(m, "Failed to launch application")
    ELSE [m EXCEPT !.spawned = Append(@, config.command)]

\* `if let Ok(windows) = get_windows()`: a failure here is only not logged
IgnoreErr(m, m1) == IF Ok(m) /\ ~Ok(m1) THEN [m1 EXCEPT !.err = NoErr, !.swallowed = TRUE] ELSE m1

max_attempts == 50

\* the loop of ScratchpadManager::toggle that waits for the window.  The
\* attempts counter is m.polls; poll_block runs the iterations up to the next
\* multiple of ten, wait_for_window runs the blocks until the loop is left
RECURSIVE poll_block(_, _, _)
poll_block(m, name, config) ==
    IF ~Ok(m) \/ m.done THEN m ELSE
    LET attempts == m.polls + 1 IN
    Then(find_window([Arrive(m, attempts) EXCEPT !.polls = attempts]), LAMBDA m1 :
       IF FoundWindow(m1, config.app_id) # NoWin
       THEN LET window_id == FoundWindow(m1, config.app_id) IN
            [toggle_window_visibility(
                 register_scratchpad(Mark(m1, "appeared"), name, window_id, config),
                 window_id, name, config) EXCEPT !.done = TRUE]
       ELSE Bind(IF attempts % 10 = 0 THEN IgnoreErr(m1, get_windows(m1)) ELSE m1,
                 LAMBDA m2 :
            IF attempts >= max_attempts
            THEN Fail(Mark(IgnoreErr(m2, get_windows(m2)), "timeout"),
                      "Timeout waiting for window to appear")
            ELSE IF attempts % 10 = 0 THEN m2
            ELSE poll_block(m2, name, config)))
RECURSIVE wait_for_window(_, _, _)
wait_for_window(m, name, config) ==
    IF ~Ok(m) \/ m.done THEN m
    ELSE wait_for_window(poll_block(m, name, config), name, config)

\* ScratchpadManager::toggle, from "Try to find existing window" on
toggle_unbound(m, name, config) ==
    Then(find_window(m), LAMBDA m1 :
    IF FoundWindow(m1, config.app_id) # NoWin
    THEN LET window_id == FoundWindow(m1, config.app_id) IN
         Then(show_scratchpad(
                  register_scratchpad(
                      set_window_floating(Mark(m1, "adopted"), window_id),
                      name, window_id, config),
                  window_id, name, config),
              LAMBDA m2 : Mark([m2 EXCEPT !.visibility[name] = "true"], "shown"))
    ELSE wait_for_window(launch_application(Mark(m1, "launch"), config), name, config))

\* ScratchpadManager::toggle
toggle(m, name, config) ==
    LET is_currently_visible == m.visibility[name] = "true" IN
    Then(IF is_currently_visible THEN m
         ELSE Then(get_focused_window_id(m),
                   LAMBDA m0 : [m0 EXCEPT !.previous_focused_windows[name] =
                                              m0.focused_window]),
         LAMBDA m1 :
       IF m1.scratchpads[name] # NoWin
       THEN LET window_id == m1.scratchpads[name] IN
            Then(find_window(m1), LAMBDA m2 :
               IF FoundWindow(m2, config.app_id) = window_id
               THEN toggle_window_visibility(Mark(m2, "bound"), window_id, name, config)
               ELSE toggle_unbound(Mark(RemoveSlot(m2, name), "removed"), name, config))
       ELSE toggle_unbound(m1, name, config))

\* ScratchpadManager::get_config(name, None)
get_config(m, name) == m.dynamic_configs[name]

\* ScratchpadManager::add_current_window
add_current_window(m, name, direction, size, margin) ==
    Then(get_focused_window_id(m), LAMBDA m1 :
    IF m1.focused_window = NoWin THEN Fail(m1, "No focused window found")
    ELSE
    LET window_id == m1.focused_window IN
    Then(get_windows(m1), LAMBDA m2 :
       LET windows == WindowList(m2) IN
       IF ~HasWindow(windows, window_id) THEN Fail(m2, "Window not found")
       ELSE
       LET window == WinById(windows, window_id)
           app_id == IF window.app_id # NoStr THEN window.app_id
                     ELSE S_window_ \o to_string(window_id)
           config == [direction |-> direction,
                      command |-> << "#" >> \o to_string(window_id),
                      app_id |-> app_id, size |-> size, margin |-> margin]
           old_window_id == m2.scratchpads[name]
       IN IF old_window_id # NoWin /\ HasWindow(windows, old_window_id)
          THEN Fail(m2, "Scratchpad already exists")
          ELSE Then(register_scratchpad(
                        IF old_window_id # NoWin
                        THEN Mark(RemoveSlot(m2, name), "removed") ELSE m2,
                        name, window_id, config),
                    LAMBDA m4 : Mark([m4 EXCEPT !.dynamic_configs[name] = config],
                                     "added"))))

\* a handler that toggles an unknown name with a made-up configuration
handle_scratchpad_toggle_any(m, name) ==
    toggle(m, name,
           IF get_scratchpad(name) # NoConfig THEN get_scratchpad(name)
           ELSE [direction |-> "fromTop", command |-> S_foot, app_id |-> S_foot,
                 size |-> default_size, margin |-> default_margin])

\* ScratchpadsPlugin::handle_ipc_request, IpcRequest::ScratchpadToggle
handle_scratchpad_toggle(m, name) ==
    IF get_scratchpad(name) = NoConfig /\ get_config(m, name) = NoConfig
    THEN Fail(m, "Scratchpad not found")
    ELSE toggle(m, name,
                IF get_scratchpad(name) # NoConfig THEN get_scratchpad(name)
                ELSE get_config(m, name))

\* ScratchpadsPlugin::handle_ipc_request, IpcRequest::ScratchpadAdd
handle_scratchpad_add(m, name, direction) ==
    IF direction \notin Directions THEN Fail(m, "Invalid direction")
    ELSE add_current_window(m, name, direction, default_size, default_margin)

(***************************************************************************)
(* The manager that CommandHandler owns (src/src/scratchpads.rs, used by   *)
(* src/src/commands.rs).  It registers, shows and launches as the plugin's *)
(* manager does; its toggle_window_visibility has no move to the focused    *)
(* workspace, and its hide_scratchpad follows the window that was focused  *)
(* before the show to the workspace it is on.                              *)
(***************************************************************************)
\* NiriIpc::switch_to_workspace: Action::FocusWorkspace by index
switch_to_workspace(m, workspace) ==
    Then(SendAction(m, [a |-> "FocusWorkspace", id |-> workspace], m.windows),
         LAMBDA m1 : IF \E i \in WsIdx : to_string(i) = workspace
                     THEN [m1 EXCEPT !.focused_ws =
                                        CHOOSE i \in WsIdx : to_string(i) = workspace]
                     ELSE m1)

\* scratchpads::ScratchpadManager::hide_scratchpad
scratchpads_hide_scratchpad(m, window_id, name, config) ==
    Then(get_window_position(
             get_output_dimensions(set_window_floating(m, window_id)), window_id),
         LAMBDA m1 :
    LET cur == WinById(m1.windows, window_id)
        hide == calculate_hide_position(config.direction, m1.dims[1], m1.dims[2],
                                        cur.w, cur.h, config.margin)
    IN Then(move_window_to_position(m1, window_id, cur.x, cur.y, hide[1], hide[2]),
            LAMBDA m2 :
       LET previous_focused == m2.previous_focused_windows[name] IN
       IF previous_focused = NoWin THEN m2
       ELSE Then(get_windows(get_focused_workspace(m2)), LAMBDA m3 :
       LET current_workspace == FocusedWorkspaceName(m3)
           windows == WindowList(m3)
           InWs(w) == w.id # window_id
                      /\ is_window_in_current_workspace(w, current_workspace)
           current_workspace_windows == SelectSeq(windows, InWs)
           middle == IF Len(current_workspace_windows) > 0
                     THEN focus_window(m3,
                              current_workspace_windows[
                                  (Len(current_workspace_windows) \div 2) + 1].id)
                     ELSE m3
       IN IF previous_focused # NoEntry /\ HasWindow(windows, previous_focused)
          THEN LET window == WinById(windows, previous_focused) IN
               IF is_window_in_current_workspace(window, current_workspace)
               THEN focus_window(m3, previous_focused)
               ELSE IF window.workspace # NoStr
               THEN focus_window(switch_to_workspace(m3, window.workspace),
                                 previous_focused)
               ELSE IF window.workspace_id # 0
               THEN Then(Req(m3), LAMBDA m4 :
                       IF \E i \in WsIdx : WsIdOf(i) = window.workspace_id
                       THEN focus_window(
                                switch_to_workspace(
                                    m4, to_string(IdxOfWsId(window.workspace_id))),
                                previous_focused)
                       ELSE IF Len(current_workspace_windows) > 0
                       THEN focus_window(m4,
                                current_workspace_windows[
                                    (Len(current_workspace_windows) \div 2) + 1].id)
                       ELSE m4)
               ELSE middle
          ELSE middle)))

\* scratchpads::ScratchpadManager::toggle_window_visibility
scratchpads_toggle_window_visibility(m, window_id, name, config) ==
    IF ~Ok(m) THEN m ELSE
    IF m.visibility[name] = "true"
    THEN Then(scratchpads_hide_scratchpad(m, window_id, name, config),
              LAMBDA m1 : Mark([m1 EXCEPT !.visibility[name] = "false"], "hidden"))
    ELSE Then(show_scratchpad(m, window_id, name, config),
              LAMBDA m1 : Mark([m1 EXCEPT !.visibility[name] = "true"], "shown"))

\* scratchpads::ScratchpadManager::toggle
scratchpads_toggle(m, name, config) ==
    LET is_currently_visible == m.visibility[name] = "true" IN
    Then(IF is_currently_visible THEN m
         ELSE Then(get_focused_window_id(m),
                   LAMBDA m0 : [m0 EXCEPT !.previous_focused_windows[name] =
                                              m0.focused_window]),
         LAMBDA m1 :
       IF m1.scratchpads[name] # NoWin
       THEN LET window_id == m1.scratchpads[name] IN
            Then(find_window(m1), LAMBDA m2 :
               IF FoundWindow(m2, config.app_id) = window_id
               THEN scratchpads_toggle_window_visibility(Mark(m2, "bound"), window_id,
                                                         name, config)
               ELSE toggle_unbound(Mark(RemoveSlot(m2, name), "removed"), name, config))
       ELSE toggle_unbound(m1, name, config))

\* CommandHandler::handle_scratchpad_toggle
CommandHandler_handle_scratchpad_toggle(m, name) ==
    IF get_scratchpad(name) = NoConfig /\ get_config(m, name) = NoConfig
    THEN Fail(m, "Scratchpad not found")
    ELSE scratchpads_toggle(m, name,
                            IF get_scratchpad(name) # NoConfig THEN get_scratchpad(name)
                            ELSE get_config(m, name))

(***************************************************************************)
(* SwallowPlugin (src/src/plugins/swallow.rs).  The plugin's state is the  *)
(* pid map and the focus queue; a handler runs on a record                 *)
(*   [map, queue, acts, err, step, failAt]                                 *)
(* over the compositor's windows, each with a fixed pid, workspace and     *)
(* floating flag.                                                          *)
(***************************************************************************)
\* windows of the swallow part
MaxSwWin == 6
SwIds == 1..MaxSwWin
\* Option<u32>::None for a pid
NoPid == 0
\* window 1 is a terminal, window 2 a program started from it, the others
\* report no pid
PidOf(id) ==
    CASE id = 1 -> 100
      [] id = 2 -> 200
      [] OTHER -> NoPid
Pids == {100, 200}
\* /proc/<pid>/stat, field 4, followed up to pid 0 or 1
AncestorPids(pid) == IF pid = 200 THEN {100} ELSE {}
\* Option<u64>::None for a workspace id
NoWs == 0
\* what the compositor reports while a child is handled: the workspace ids of
\* parent and child, whether the child floats, whether the parent's workspace
\* is in the workspace list, whether FocusWindow(parent) is answered Reply::Err
SwViews ==
    [parent_ws : {NoWs, 1}, child_ws : {1, 2}, floating : BOOLEAN,
     listed : BOOLEAN, rejected : BOOLEAN]
SwPlainView ==
    [parent_ws |-> 1, child_ws |-> 1, floating |-> FALSE, listed |-> TRUE,
     rejected |-> FALSE]
\* a floating child on another workspace than its parent: the longest batch
SwFullView ==
    [parent_ws |-> 1, child_ws |-> 2, floating |-> TRUE, listed |-> TRUE,
     rejected |-> FALSE]

\* SwallowPluginConfig: PID matching on, no rules, no exclude
use_pid_matching == TRUE

\* focus queue capacity
QueueCap == 5
\* the initial scan has no window list in hand
NoList == << 0 >>
\* no event is being handled
SwIdle == [op |-> "none", id |-> 0, outcome |-> "none", err |-> NoErr, acts |-> << >>,
           parent |-> 0, view |-> SwPlainView, dropped |-> 0]

\* VecDeque::retain(|w| w != id)
Retain(q, id) ==
    LET Keep(w) == w # id IN SelectSeq(q, Keep)
\* `while queue.len() > 5 { queue.pop_front() }`
RECURSIVE TrimFront(_)
TrimFront(q) == IF Len(q) > QueueCap THEN TrimFront(Tail(q)) ELSE q

\* a queue update that forgets to remove the id first
push_focused_no_retain(q, id) == TrimFront(Append(q, id))

\* the queue update of handle_window_opened and of WindowFocusTimestampChanged
push_focused(q, id) == TrimFront(Append(Retain(q, id), id))

\* map.entry(pid).or_insert_with(Vec::new).push(id)
PushPid(map, pid, id) == [map EXCEPT ![pid] = Append(@, id)]

\* one fallible step of a handler
SwStep(s) ==
    IF s.err # NoErr THEN s
    ELSE IF s.step + 1 = s.failAt
         THEN [s EXCEPT !.step = @ + 1, !.err = "niri"]
         ELSE [s EXCEPT !.step = @ + 1]

SwThen(s, rest(_)) == IF s.err = NoErr THEN rest(s) ELSE s
\* socket.send(Request::Action(a))?
SwSend(s, a) == SwThen(SwStep(s), LAMBDA s1 : [s1 EXCEPT !.acts = Append(@, a)])

\* a batch that consumes the child before it is made tiling and moved
perform_swallow_consume_first(s, parent, child, v) ==
    LET workspace_ref == v.parent_ws # NoWs /\ v.child_ws # v.parent_ws /\ v.listed
    IN SwSend(
         SwThen(
           SwThen(SwSend(SwSend(s, [a |-> "FocusWindow", id |-> parent]),
                         [a |-> "ConsumeOrExpelWindowLeft", id |-> child]),
                  LAMBDA s2 : IF v.floating
                              THEN SwSend(s2, [a |-> "MoveWindowToTiling", id |-> child])
                              ELSE s2),
           LAMBDA s3 : IF workspace_ref
                       THEN SwSend(s3, [a |-> "MoveWindowToWorkspace", id |-> child,
                                        ws |-> v.parent_ws])
                       ELSE s3),
         [a |-> "FocusWindow", id |-> child])

\* SwallowPlugin::perform_swallow: the workspace of the parent is looked up
\* if the child is not on it, then the actions are sent on one socket
perform_swallow(s, parent, child, v) ==
    LET differs == v.parent_ws # NoWs /\ v.child_ws # v.parent_ws
        workspace_ref == differs /\ v.listed
    IN SwSend(
         SwSend(
           SwThen(
             SwThen(
               SwThen(SwSend(IF differs THEN SwStep(s) ELSE s,
                             [a |-> "FocusWindow", id |-> parent]),
                      LAMBDA s1 : IF v.rejected
                                  THEN [s1 EXCEPT !.err = "Failed to focus parent window"]
                                  ELSE s1),
               LAMBDA s2 : IF v.floating
                           THEN SwSend(s2, [a |-> "MoveWindowToTiling", id |-> child])
                           ELSE s2),
             LAMBDA s3 : IF workspace_ref
                         THEN SwSend(s3, [a |-> "MoveWindowToWorkspace", id |-> child,
                                          ws |-> v.parent_ws])
                         ELSE s3),
           [a |-> "ConsumeOrExpelWindowLeft", id |-> child]),
         [a |-> "FocusWindow", id |-> child])

\* the loop of SwallowPlugin::try_pid_matching over the window list: every
\* window with a pid is written into the map until a parent is found
RECURSIVE pid_matching_loop(_, _, _, _)
pid_matching_loop(s, child, order, i) ==
    IF i > Len(order) THEN [s EXCEPT !.parent = 0]
    ELSE IF order[i] = child \/ PidOf(order[i]) = NoPid
    THEN pid_matching_loop(s, child, order, i + 1)
    ELSE LET s1 == [s EXCEPT !.map = PushPid(@, PidOf(order[i]), order[i])] IN
         IF PidOf(order[i]) \in AncestorPids(PidOf(child))
         THEN [s1 EXCEPT !.parent = order[i]]
         ELSE pid_matching_loop(s1, child, order, i + 1)

\* SwallowPlugin::try_pid_matching
try_pid_matching(s, child, order) ==
    IF PidOf(child) = NoPid THEN [s EXCEPT !.parent = 0]
    ELSE pid_matching_loop([s EXCEPT !.map = PushPid(@, PidOf(child), child)],
                           child, order, 1)

\* SwallowPlugin::handle_window_opened
handle_window_opened(s, window_id, order, v) ==
    IF \E p \in Pids : \E i \in 1..Len(s.map[p]) : s.map[p][i] = window_id
    THEN [s EXCEPT !.outcome = "skipped"]
    ELSE
    LET s1 == SwStep(s) IN
    IF s1.err # NoErr THEN s1 ELSE
    LET s2 == IF PidOf(window_id) # NoPid
              THEN [s1 EXCEPT !.map = PushPid(@, PidOf(window_id), window_id)]
              ELSE s1
        s3 == [s2 EXCEPT !.queue = push_focused(@, window_id), !.outcome = "queued"]
    IN IF use_pid_matching
       THEN SwThen(SwStep(s3), LAMBDA s4 :
            Bind(try_pid_matching(s4, window_id, order), LAMBDA s5 :
            IF s5.parent # 0 THEN perform_swallow(s5, s5.parent, window_id, v) ELSE s5))
       ELSE s3

\* SwallowPlugin::handle_event, Event::WindowClosed
handle_window_closed(s, id) ==
    [s EXCEPT !.map = [p \in Pids |-> Retain(s.map[p], id)],
              !.queue = Retain(@, id),
              !.outcome = "closed"]

\* SwallowPlugin::handle_event, Event::WindowFocusTimestampChanged
handle_focus_timestamp_changed(s, id) ==
    [s EXCEPT !.queue = push_focused(@, id), !.outcome = "queued"]

\* SwallowPlugin::perform_initial_scan
RECURSIVE scan_windows(_, _, _)
scan_windows(map, order, i) ==
    IF i > Len(order) THEN map
    ELSE scan_windows(IF PidOf(order[i]) # NoPid
                      THEN PushPid(map, PidOf(order[i]), order[i]) ELSE map,
                      order, i + 1)
perform_initial_scan(s, order) ==
    LET s1 == SwStep(s) IN
    IF s1.err # NoErr THEN s1
    ELSE [s1 EXCEPT !.map = scan_windows(@, order, 1), !.outcome = "scanned"]

(***************************************************************************)
(* The singleton plugin (plugins/singleton.rs, plugins/window_utils.rs).   *)
(***************************************************************************)
S_cmd_foot == << "/", "u", "s", "r", "/", "b", "i", "n", "/", "f", "o", "o", "t", " ", "-", "e" >>
S_cmd_gvim == << "g", "v", "i", "m", " ", "-", "f" >>
S_v_m == << "v", ".", "m" >>
\* Config.singleton: name -> SingletonConfig
FileSingletons ==
    [term |-> [command |-> S_cmd_foot, app_id |-> NoStr],
     editor |-> [command |-> S_cmd_gvim, app_id |-> S_v_m]]
SingletonNames == DOMAIN FileSingletons
get_singleton(name) == FileSingletons[name]

\* str::split_whitespace().next().unwrap_or(command)
RECURSIVE SkipSpaces(_)
SkipSpaces(s) == IF s # << >> /\ s[1] = " " THEN SkipSpaces(Tail(s)) ELSE s
RECURSIVE TakeWord(_)
TakeWord(s) == IF s = << >> \/ s[1] = " " THEN << >> ELSE << s[1] >> \o TakeWord(Tail(s))
FirstToken(command) ==
    IF SkipSpaces(command) = << >> THEN command ELSE TakeWord(SkipSpaces(command))
\* str::split('/').last()
RECURSIVE AfterLastSlash(_)
AfterLastSlash(s) ==
    IF \E i \in 1..Len(s) : s[i] = "/"
    THEN AfterLastSlash(SubSeq(s, 1 + (CHOOSE i \in 1..Len(s) : s[i] = "/"), Len(s)))
    ELSE s
\* SingletonManager::extract_app_id_from_command
extract_app_id_from_command(command) == AfterLastSlash(FirstToken(command))
\* SingletonManager::get_window_match_pattern
get_window_match_pattern(config) ==
    IF config.app_id # NoStr THEN config.app_id
    ELSE extract_app_id_from_command(config.command)

\* the characters regex::escape puts a backslash before
RegexMeta ==
    {"\\", ".", "+", "*", "?", "(", ")", "|", "[", "]", "{", "}", "^", "$", "#", "&", "-", "~"}
RECURSIVE regex_escape(_)
regex_escape(p) ==
    IF p = << >> THEN << >>
    ELSE (IF p[1] \in RegexMeta THEN << "\\", p[1] >> ELSE << p[1] >>) \o regex_escape(Tail(p))
\* Regex::new for the patterns of this model: `.` is any character, `\c` is
\* the character c, every other character is itself
RECURSIVE RegexTokens(_)
RegexTokens(p) ==
    IF p = << >> THEN << >>
    ELSE IF p[1] = "\\" /\ Len(p) >= 2
         THEN << [any |-> FALSE, c |-> p[2]] >> \o RegexTokens(SubSeq(p, 3, Len(p)))
         ELSE << [any |-> p[1] = ".", c |-> p[1]] >> \o RegexTokens(Tail(p))
\* Regex::is_match: the pattern matches somewhere in the text
is_match(pattern, text) ==
    LET t == RegexTokens(pattern) IN
    \E start \in 0..(Len(text) - Len(t)) :
        \A k \in 1..Len(t) : t[k].any \/ text[start + k] = t[k].c
\* WindowMatcherCache::matches for a matcher with an app_id pattern alone
matches_app_id(window, pattern) == window.app_id # NoStr /\ is_match(pattern, window.app_id)
\* window_utils::find_window_by_matcher: the first window of the list whose
\* app_id matches, left in m.found
RECURSIVE FirstAppIdMatch(_, _, _)
FirstAppIdMatch(wins, pattern, i) ==
    IF i > Len(wins) THEN NoWin
    ELSE IF matches_app_id(wins[i], pattern) THEN wins[i].id
    ELSE FirstAppIdMatch(wins, pattern, i + 1)
find_window_by_matcher(m, pattern) ==
    Then(get_windows(m), LAMBDA m1 : [m1 EXCEPT !.found = FirstAppIdMatch(m1.windows, pattern, 1)])

\* window_utils::wait_for_window: the pattern it compiles
WaitPattern(window_match) ==
    IF \E i \in 1..Len(window_match) : window_match[i] \in {".", "+", "*", "?", "[", "]", "(", ")"}
    THEN window_match
    ELSE regex_escape(window_match)
\* its loop, ten attempts at a time (the attempt counter is m.polls)
RECURSIVE sg_poll_block(_, _)
sg_poll_block(m, pattern) ==
    IF ~Ok(m) \/ m.done THEN m ELSE
    Then(find_window_by_matcher([Arrive(m, m.polls + 1) EXCEPT !.polls = @ + 1], pattern),
         LAMBDA m1 :
            IF m1.found # NoWin THEN [m1 EXCEPT !.done = TRUE]
            ELSE IF m1.polls >= max_attempts
            THEN Fail(Mark(IgnoreErr(m1, get_windows(m1)), "timeout"),
                      "Timeout waiting for window to appear")
            ELSE IF m1.polls % 10 = 0 THEN m1
            ELSE sg_poll_block(m1, pattern))
RECURSIVE sg_wait_for_window(_, _)
sg_wait_for_window(m, pattern) ==
    IF ~Ok(m) \/ m.done THEN m
    ELSE sg_wait_for_window(sg_poll_block(m, pattern), pattern)

\* focus the window, then register it under the name
focus_and_register(m, name, window_id) ==
    Then(focus_window(m, window_id), LAMBDA m1 : [m1 EXCEPT !.singletons[name] = window_id])
\* a toggle that launches without looking for a window that matches
singleton_toggle_unbound_no_lookup(m, name, config) ==
    Then(sg_wait_for_window(launch_application(Mark(m, "launch"), config),
                            WaitPattern(get_window_match_pattern(config))),
         LAMBDA m2 : focus_and_register(m2, name, m2.found))
\* SingletonManager::toggle, from "Try to find existing window" on
singleton_toggle_unbound(m, name, config) ==
    Then(find_window_by_matcher(m, get_window_match_pattern(config)), LAMBDA m1 :
        IF m1.found # NoWin
        THEN focus_and_register(Mark(m1, "found"), name, m1.found)
        ELSE Then(sg_wait_for_window(launch_application(Mark(m1, "launch"), config),
                                     WaitPattern(get_window_match_pattern(config))),
                  LAMBDA m2 : focus_and_register(m2, name, m2.found)))
\* SingletonManager::toggle
singleton_toggle(m, name, config) ==
    Then(IF m.singletons[name] # NoWin THEN get_windows(m) ELSE m, LAMBDA m1 :
        IF m1.singletons[name] # NoWin /\ HasWindow(m1.windows, m1.singletons[name])
        THEN focus_window(Mark(m1, "bound"), m1.singletons[name])
        ELSE singleton_toggle_unbound([m1 EXCEPT !.singletons[name] = NoWin], name, config))

(***************************************************************************)
(* The window rule plugin (plugins/window_rule.rs) and the resolution of a *)
(* workspace target (plugins/window_utils.rs).                             *)
(*   workspace: [id, idx, name], name = NoStr for an unnamed workspace     *)
(***************************************************************************)
S_web == << "w", "e", "b" >>
\* the workspaces of the output: two unnamed, one named "web", one named "2"
Workspaces ==
    {[id |-> 11, idx |-> 1, name |-> NoStr], [id |-> 12, idx |-> 2, name |-> NoStr],
     [id |-> 13, idx |-> 3, name |-> S_web], [id |-> 14, idx |-> 4, name |-> << "2" >>]}
\* the orders in which the compositor may list them
WorkspaceLists ==
    {l \in [1..Cardinality(Workspaces) -> Workspaces] :
        \A i, j \in 1..Cardinality(Workspaces) : i # j => l[i] # l[j]}
\* the listing in idx order
ListWeb2 == CHOOSE l \in WorkspaceLists : \A i \in 1..Len(l) : l[i].idx = i
\* Option<String>::None of match_workspace
NoMatch == [id |-> 0, key |-> NoStr]

\* str::parse::<u8>: -1 stands for Err
NotU8 == -1
DigitVal(c) == (CHOOSE i \in 1..10 : DigitChars[i] = c) - 1
IsDigit(c) == \E i \in 1..10 : DigitChars[i] = c
RECURSIVE DecimalValue(_)
DecimalValue(s) ==
    IF s = << >> THEN 0
    ELSE LET v == DecimalValue(SubSeq(s, 1, Len(s) - 1)) IN
         IF v > 255 THEN 256 ELSE 10 * v + DigitVal(s[Len(s)])
parse_u8(s) ==
    IF s # << >> /\ (\A i \in 1..Len(s) : IsDigit(s[i])) /\ DecimalValue(s) <= 255
    THEN DecimalValue(s)
    ELSE NotU8

\* the first workspace of the list, from position i, that satisfies the test
RECURSIVE FirstWorkspace(_, _, _)
FirstWorkspace(workspaces, hit, i) ==
    IF i > Len(workspaces) THEN 0
    ELSE IF hit[i] THEN i
    ELSE FirstWorkspace(workspaces, hit, i + 1)
WorkspaceKey(ws) == IF ws.name # NoStr THEN ws.name ELSE to_string(ws.idx)

\* window_utils::match_workspace, on the workspace list it has read
match_workspace(target_workspace, workspaces) ==
    LET by_name == FirstWorkspace(workspaces,
                     [i \in 1..Len(workspaces) |->
                         workspaces[i].name # NoStr
                         /\ workspaces[i].name = target_workspace], 1)
        by_idx == FirstWorkspace(workspaces,
                     [i \in 1..Len(workspaces) |->
                         parse_u8(target_workspace) # NotU8
                         /\ workspaces[i].idx = parse_u8(target_workspace)], 1)
    IN IF by_name # 0
       THEN [id |-> workspaces[by_name].id, key |-> workspaces[by_name].name]
       ELSE IF by_idx # 0
       THEN [id |-> workspaces[by_idx].id, key |-> WorkspaceKey(workspaces[by_idx])]
       ELSE NoMatch

\* WindowRulePlugin::parse_workspace_identifier and the comparison of the
\* target's identifier with a workspace's (its name, else its idx)
identifier_matches(target_workspace, ws) ==
    LET idx == parse_u8(target_workspace) IN
    IF idx = NotU8
    THEN IF ws.name # NoStr THEN target_workspace = ws.name
         ELSE target_workspace = to_string(ws.idx)
    ELSE IF ws.name # NoStr THEN ws.name = to_string(idx)
         ELSE idx = ws.idx
\* WindowRulePlugin::match_workspace, on the workspace list it has read
rule_match_workspace(target_workspace, workspaces) ==
    LET first == FirstWorkspace(workspaces,
                     [i \in 1..Len(workspaces) |->
                         identifier_matches(target_workspace, workspaces[i])], 1)
        second == FirstWorkspace(workspaces,
                     [i \in 1..Len(workspaces) |->
                         parse_u8(target_workspace) # NotU8
                         /\ workspaces[i].idx = parse_u8(target_workspace)], 1)
    IN IF first # 0
       THEN [id |-> workspaces[first].id, key |-> WorkspaceKey(workspaces[first])]
       ELSE IF second # 0
       THEN [id |-> workspaces[second].id, key |-> to_string(workspaces[second].idx)]
       ELSE NoMatch

S_9 == << "9" >>
\* WindowRulePluginConfig.rules, in configured order
FileRules ==
    << [app_id |-> S_foot, title |-> NoStr, open_on_workspace |-> S_9],
       [app_id |-> NoStr, title |-> S_foot, open_on_workspace |-> S_web],
       [app_id |-> S_v_m, title |-> NoStr, open_on_workspace |-> << "2" >>],
       [app_id |-> NoStr, title |-> S_vim, open_on_workspace |-> << "1" >>] >>
\* WindowRulePlugin::matches_rule
matches_rule(window, rule) ==
    \/ rule.app_id # NoStr /\ window.app_id # NoStr /\ is_match(rule.app_id, window.app_id)
    \/ rule.title # NoStr /\ window.title # NoStr /\ is_match(rule.title, window.title)
\* compositor: the workspace a MoveWindowToWorkspace reference names, as
\* NiriIpc::move_window_to_workspace builds it (an index if it parses as u8)
MoveTarget(key, workspaces) ==
    LET hit == FirstWorkspace(workspaces,
                   [i \in 1..Len(workspaces) |->
                       IF parse_u8(key) # NotU8 THEN workspaces[i].idx = parse_u8(key)
                       ELSE workspaces[i].name = key], 1)
    IN IF hit = 0 THEN 0 ELSE workspaces[hit].id
\* one request to the compositor: fails when it is the failing one
WrStep(s) == [s EXCEPT !.step = @ + 1, !.failed = (s.step + 1 = s.failAt)]
\* the Ok(Some(workspace)) arm: the move, and the return that follows it
rule_move(s, window, workspaces, i, key) ==
    Bind(WrStep(s), LAMBDA s1 :
        IF s1.failed
        THEN [s1 EXCEPT !.moves = Append(@, [rule |-> i, key |-> key]),
                        !.err = "Failed to move window to workspace"]
        ELSE [s1 EXCEPT !.moves = Append(@, [rule |-> i, key |-> key]),
                        !.where[window.id] = MoveTarget(key, workspaces)])
\* the rule loop of WindowRulePlugin::handle_event, from rule i on
RECURSIVE rule_loop(_, _, _, _)
rule_loop(s, window, workspaces, i) ==
    IF i > Len(FileRules) THEN s
    ELSE IF ~matches_rule(window, FileRules[i])
    THEN rule_loop([s EXCEPT !.tried = Append(@, i)], window, workspaces, i + 1)
    ELSE Bind(WrStep([s EXCEPT !.tried = Append(@, i), !.matched = Append(@, i)]), LAMBDA s1 :
         Bind(rule_match_workspace(FileRules[i].open_on_workspace, workspaces), LAMBDA r :
            IF s1.failed \/ r = NoMatch
            THEN rule_loop(s1, window, workspaces, i + 1)
            ELSE rule_move(s1, window, workspaces, i, r.key)))

(***************************************************************************)
(* The empty plugin (plugins/empty.rs).                                    *)
(***************************************************************************)
\* keys an EmptyPluginConfig.workspaces may have; the command of a key
EmptyKeys == {<< "3" >>, << "0", "3" >>, S_web, << "4" >>, << "2" >>}
CommandOf(key) == << "r", "u", "n", "-" >> \o key
\* HashMap::get
MapGet(map, key) == IF key \in DOMAIN map THEN map[key] ELSE NoStr
\* one pass of EmptyPlugin::try_match_and_execute over the configuration:
\* the keys that match (the HashMap is iterated in no particular order)
first_pass_keys(workspace_key, map) ==
    {key \in DOMAIN map :
        LET cur == parse_u8(workspace_key)
            k == parse_u8(key)
        IN IF cur = NotU8
           THEN IF k = NotU8 THEN workspace_key = key ELSE workspace_key = to_string(k)
           ELSE k = NotU8 /\ key = to_string(cur)}
second_pass_keys(workspace_key, map) ==
    {key \in DOMAIN map :
        parse_u8(workspace_key) # NotU8 /\ parse_u8(key) = parse_u8(workspace_key)}
\* EmptyPlugin::execute_command: sh -c <command>
em_execute_command(s, command) ==
    IF s.spawnFails THEN [s EXCEPT !.err = "Failed to execute command"]
    ELSE [s EXCEPT !.spawned = Append(@, command)]
\* EmptyPlugin::try_match_and_execute for an empty workspace; pick is the key
\* the iteration meets first among those that match
try_match_and_execute(s, workspace_key, map, pick) ==
    LET keys == IF first_pass_keys(workspace_key, map) # {}
                THEN first_pass_keys(workspace_key, map)
                ELSE second_pass_keys(workspace_key, map)
    IN IF keys = {} THEN s
       ELSE Bind(em_execute_command(s, map[IF pick \in keys THEN pick ELSE CHOOSE k \in keys : TRUE]),
                 LAMBDA s1 : IF s1.err # NoErr THEN s1
                             ELSE [s1 EXCEPT !.workspace_empty[workspace_key] = "true"])
\* EmptyPlugin::handle_event_internal, WorkspaceActivated, from the point
\* where the focused workspace ws was found in the workspace list
workspace_activated(s, ws, is_empty, map, pick) ==
    Bind([s EXCEPT !.last_workspace = to_string(ws.idx),
                   !.workspace_empty[to_string(ws.idx)] = IF is_empty THEN "true" ELSE "false"],
         LAMBDA s1 :
            IF ~is_empty THEN s1
            ELSE IF MapGet(map, to_string(ws.idx)) # NoStr
            THEN em_execute_command(s1, MapGet(map, to_string(ws.idx)))
            ELSE IF ws.name # NoStr /\ MapGet(map, ws.name) # NoStr
            THEN em_execute_command(s1, MapGet(map, ws.name))
            ELSE try_match_and_execute(s1, to_string(ws.idx), map, pick))

(***************************************************************************)
(* The window order plugin: the target permutation of a reorder pass and   *)
(* the moves that reach it.                                                *)
(***************************************************************************)
S_term == << "t", "e", "r", "m" >>
S_editor == << "e", "d", "i", "t", "o", "r" >>
S_misc == << "m", "i", "s", "c" >>
\* [window_order] term = 10, editor = 5
FileWindowOrder == [k \in {S_term, S_editor} |-> IF k = S_term THEN 10 ELSE 5]
default_weight == 0

\* Config::get_window_order: the exact key, else a key contained in the
\* app_id or containing it, else the default weight
config_get_window_order(app_id) ==
    IF app_id \in DOMAIN FileWindowOrder THEN FileWindowOrder[app_id]
    ELSE IF \E k \in DOMAIN FileWindowOrder : Contains(app_id, k) \/ Contains(k, app_id)
         THEN FileWindowOrder[CHOOSE k \in DOMAIN FileWindowOrder :
                                  Contains(app_id, k) \/ Contains(k, app_id)]
         ELSE default_weight
\* WindowOrderPlugin::get_window_order: an Option<&String>
get_window_order(app_id) ==
    IF app_id # NoStr THEN config_get_window_order(app_id) ELSE default_weight

\* the windows of the current workspace that are not floating, in the order
\* of the snapshot
workspace_windows(wins) == SelectSeq(wins, LAMBDA w : w.here /\ ~w.floating)
\* (id, current column): a window without a layout position counts as column 1
current_col_of(w) == IF w.col = 0 THEN 1 ELSE w.col
current_state_of(ws) == [id \in {ws[i].id : i \in 1..Len(ws)} |->
                            current_col_of(ws[CHOOSE i \in 1..Len(ws) : ws[i].id = id])]
\* (id, order, current_col) of the windows, in the order of the snapshot
windows_with_order(ws) ==
    [i \in 1..Len(ws) |-> [id |-> ws[i].id, order |-> get_window_order(ws[i].app_id),
                           current_col |-> current_col_of(ws[i])]]
\* the comparator of the sort, as "a sorts before b": weight descending, then
\* current column ascending
compare_order_only(a, b) == b.order < a.order
compare_order(a, b) ==
    \/ b.order < a.order
    \/ b.order = a.order /\ a.current_col < b.current_col
\* slice::sort_by is stable: an element goes behind all those that do not
\* sort after it
insert_sorted(sorted, x) ==
    LET p == Cardinality({i \in 1..Len(sorted) : ~compare_order(x, sorted[i])}) IN
    SubSeq(sorted, 1, p) \o << x >> \o SubSeq(sorted, p + 1, Len(sorted))
RECURSIVE sort_by(_)
sort_by(v) ==
    IF v = << >> THEN << >>
    ELSE insert_sorted(sort_by(SubSeq(v, 1, Len(v) - 1)), v[Len(v)])
\* target column idx + 1 of the window at idx of the sorted vector
target_state_of(sorted) ==
    [id \in {sorted[i].id : i \in 1..Len(sorted)} |->
        CHOOSE i \in 1..Len(sorted) : sorted[i].id = id]
needs_move(cur, tgt) == \E id \in DOMAIN tgt : cur[id] # tgt[id]

\* the simulated move of one window: the windows between shift by one
shift_columns(cur, id, from, to) ==
    [w \in DOMAIN cur |->
        IF w = id THEN to
        ELSE IF from < to /\ cur[w] > from /\ cur[w] <= to THEN cur[w] - 1
        ELSE IF from > to /\ cur[w] >= to /\ cur[w] < from THEN cur[w] + 1
        ELSE cur[w]]
correct_count(state, tgt) == Cardinality({w \in DOMAIN tgt : state[w] = tgt[w]})
abs_diff(a, b) == IF a < b THEN b - a ELSE a - b
NoMove == [id |-> NoWin, from |-> 0, to |-> 0, count |-> 0, distance |-> 0]
candidate(cur, tgt, id) ==
    [id |-> id, from |-> cur[id], to |-> tgt[id],
     count |-> correct_count(shift_columns(cur, id, cur[id], tgt[id]), tgt),
     distance |-> abs_diff(cur[id], tgt[id])]
\* a comparison that prefers the shorter move before the move that puts more
\* windows in place
is_better_distance_first(best, cand, focused, n) ==
    IF best.id = NoWin THEN TRUE
    ELSE IF cand.distance < best.distance THEN TRUE
    ELSE IF cand.distance = best.distance THEN cand.count > best.count
    ELSE FALSE
\* a comparison by the score alone: the first candidate found with the
\* highest score stays
is_better_score_only(best, cand, focused, n) ==
    IF best.id = NoWin THEN TRUE ELSE cand.count > best.count
is_better(best, cand, focused, n) ==
    IF best.id = NoWin THEN TRUE
    ELSE IF cand.count > best.count THEN TRUE
    ELSE IF cand.count = best.count
         THEN IF cand.count = n
              THEN IF cand.id = focused /\ best.id # focused THEN TRUE
                   ELSE IF cand.id # focused /\ best.id = focused THEN FALSE
                   ELSE cand.distance < best.distance
              ELSE cand.distance < best.distance
         ELSE FALSE
\* the scan of the candidates, in the order the HashMap target_state yields
RECURSIVE best_move(_, _, _, _, _, _)
best_move(cur, tgt, iter, focused, i, best) ==
    IF i > Len(iter) THEN best
    ELSE IF cur[iter[i]] = tgt[iter[i]]
         THEN best_move(cur, tgt, iter, focused, i + 1, best)
         ELSE Bind(candidate(cur, tgt, iter[i]), LAMBDA cand :
                  Bind(IF is_better(best, cand, focused, Cardinality(DOMAIN tgt))
                       THEN cand ELSE best,
                       LAMBDA b : best_move(cur, tgt, iter, focused, i + 1, b)))

max_iterations == 100
\* iterations of the move loop evaluated in one block
LoopBlock == 10
\* one iteration of the `while iterations < max_iterations` loop
move_iteration(p, iter, focused) ==
    IF ~needs_move(p.cur, p.tgt)
    THEN [p EXCEPT !.iterations = @ + 1, !.stop = "all_correct"]
    ELSE Bind(best_move(p.cur, p.tgt, iter, focused, 1, NoMove), LAMBDA b :
             IF b.id = NoWin
             THEN [p EXCEPT !.iterations = @ + 1, !.stop = "no_valid_move"]
             ELSE [p EXCEPT !.iterations = @ + 1,
                            !.chosen = Append(@, [move |-> b, cur |-> p.cur]),
                            !.moves = Append(@, << b.id, b.from, b.to >>),
                            !.cur = shift_columns(p.cur, b.id, b.from, b.to)])
RECURSIVE move_block(_, _, _, _)
move_block(p, iter, focused, k) ==
    IF k = 0 \/ p.stop # "running" THEN p
    ELSE IF p.iterations >= max_iterations THEN [p EXCEPT !.stop = "max_iterations"]
    ELSE Bind(move_iteration(p, iter, focused), LAMBDA p1 :
             move_block(p1, iter, focused, k - 1))
RECURSIVE move_loop(_, _, _)
move_loop(p, iter, focused) ==
    IF p.stop # "running" THEN p
    ELSE Bind(move_block(p, iter, focused, LoopBlock), LAMBDA p1 :
             move_loop(p1, iter, focused))
Plan(cur, tgt) ==
    [cur |-> cur, tgt |-> tgt, moves |-> << >>, chosen |-> << >>, iterations |-> 0,
     stop |-> "running"]

\* one request to the compositor: it fails when it is the failing one
WoRequest(s) == [s EXCEPT !.step = @ + 1, !.failed = (s.step + 1 = s.failAt)]
\* run_blocking(|niri| niri.get_...())?
WoQuery(s) ==
    Bind(WoRequest(s), LAMBDA s1 :
        IF s1.failed THEN Fail(s1, "Failed to query the compositor") ELSE s1)
ColumnOf(wins, id) == wins[CHOOSE i \in 1..Len(wins) : wins[i].id = id].col
\* the compositor moves the column of the focused window to the index, and
\* the columns between shift by one
MoveColumnToIndex(wins, id, index) ==
    LET from == ColumnOf(wins, id)
        columns == {wins[i].col : i \in {j \in 1..Len(wins) : wins[j].here /\ ~wins[j].floating}}
        to == IF index > Cardinality(columns) THEN Cardinality(columns) ELSE index
    IN [i \in 1..Len(wins) |->
           IF ~wins[i].here \/ wins[i].floating THEN wins[i]
           ELSE IF wins[i].col = from THEN [wins[i] EXCEPT !.col = to]
           ELSE IF from < to /\ wins[i].col > from /\ wins[i].col <= to
                THEN [wins[i] EXCEPT !.col = @ - 1]
           ELSE IF from > to /\ wins[i].col >= to /\ wins[i].col < from
                THEN [wins[i] EXCEPT !.col = @ + 1]
           ELSE wins[i]]
\* Action::FocusWindow { id } sent on the socket: the request fails, or the
\* compositor rejects it, or the window gets the focus
WoFocusWindow(s, id, rejected) ==
    Bind(WoRequest(s), LAMBDA s1 :
        IF s1.failed \/ rejected
        THEN [s1 EXCEPT !.acts = Append(@, [a |-> "FocusWindow", id |-> id, ok |-> FALSE])]
        ELSE [s1 EXCEPT !.acts = Append(@, [a |-> "FocusWindow", id |-> id, ok |-> TRUE]),
                        !.focus = id])
\* Action::MoveColumnToIndex { index } sent on the socket
WoMoveColumnToIndex(s, index) ==
    Bind(WoRequest(s), LAMBDA s1 :
        IF s1.failed
        THEN [s1 EXCEPT !.acts = Append(@, [a |-> "MoveColumnToIndex", id |-> index,
                                           ok |-> FALSE])]
        ELSE [s1 EXCEPT !.acts = Append(@, [a |-> "MoveColumnToIndex", id |-> index,
                                           ok |-> TRUE]),
                        !.windows = MoveColumnToIndex(@, s1.focus, index)])
WoCheck(s, e) == IF s.failed THEN Fail(s, e) ELSE s
\* the moves of the sequence from the i-th on: focus, move, and the two
\* queries for the log
RECURSIVE execute_moves(_, _)
execute_moves(s, i) ==
    IF i > Len(s.plan.moves) THEN s
    ELSE Then(WoCheck(WoFocusWindow(s, s.plan.moves[i][1], FALSE), "Failed to focus window"),
              LAMBDA s1 :
         Then(WoCheck(WoMoveColumnToIndex(s1, s.plan.moves[i][3]),
                      "Failed to move column to index"), LAMBDA s2 :
         Then(WoQuery(s2), LAMBDA s3 :
         Then(WoQuery(s3), LAMBDA s4 : execute_moves(s4, i + 1)))))
\* a restoring of the focus that takes the rejection for an error
restore_focus_strict(s) ==
    IF s.focused = NoWin THEN s
    ELSE Bind(WoFocusWindow(s, s.focused, s.gone), LAMBDA s1 :
             IF s1.failed \/ s.gone THEN Fail(s1, "Failed to restore focus") ELSE s1)
\* the focus goes back to the window focused before the moves: a rejection
\* is logged, a request that cannot be sent is an error
restore_focus(s) ==
    IF s.focused = NoWin THEN s
    ELSE WoCheck(WoFocusWindow(s, s.focused, s.gone), "Failed to connect to niri socket")
\* the ids in the order the HashMap yields them
IterOf(iter, tgt) == SelectSeq(iter, LAMBDA id : id \in DOMAIN tgt)
NoPlan == [stop |-> "none"]
reorder_windows(s, iter) ==
    Then(WoQuery(s), LAMBDA s1 :
    Then(WoQuery(s1), LAMBDA s2 :
        IF workspace_windows(s2.windows) = << >> THEN Mark(s2, "no_tiled_windows")
        ELSE Bind([s2 EXCEPT !.plan =
                       Plan(current_state_of(workspace_windows(s2.windows)),
                            target_state_of(sort_by(windows_with_order(
                                                       workspace_windows(s2.windows)))))],
                  LAMBDA s3 :
            IF ~needs_move(s3.plan.cur, s3.plan.tgt) THEN Mark(s3, "already_correct")
            ELSE Then(WoQuery(s3), LAMBDA s4 :
                 Bind([s4 EXCEPT !.focused = s4.focus,
                                 !.plan = move_loop(@, IterOf(iter, s4.plan.tgt), s4.focus)],
                      LAMBDA s5 :
                 Then(execute_moves(Mark(s5, "moved"), 1), LAMBDA s6 :
                      restore_focus(s6)))))))

(***************************************************************************)
(* The plugin manager: the plugins it holds across init and reload.        *)
(***************************************************************************)
\* plugins of the register_plugins! list that the model follows, in its order
MaxPmPlugins == 4
RegisteredPlugins == << "empty", "window_rule", "scratchpads", "singleton", "window_order",
                        "autofill" >>
PluginNames == {RegisteredPlugins[i] : i \in 1..MaxPmPlugins}
\* `p.is_enabled($name) && plugin_config.is_some()`
plugin_enabled(config, name) == config.plugins[name] /\ config.sections[name]
\* Plugin::new(niri, plugin_config): a new instance without runtime state;
\* its regex cache, if it has one, is empty
plugin_new(name, config, inst) ==
    [name |-> name, inst |-> inst, config |-> config.version, state |-> 0, cache |-> {}]
\* the plugins that compile the patterns of their config into a regex cache:
\* WindowRulePlugin.regex_cache, SingletonManager.matcher_cache
CacheOwners == {"window_rule", "singleton"}
\* the plugins whose update_config clears the cache
CacheClearing == {"window_rule"}
\* the plugin matches a window: the patterns of its config are compiled and
\* kept in the cache, each known by the config it came from
get_regex(plugin) ==
    IF plugin.name \in CacheOwners THEN [plugin EXCEPT !.cache = @ \cup {plugin.config}]
    ELSE plugin
\* PluginEnum::update_config: the plugin stores the new configuration and
\* keeps the rest, but for the window rule plugin, which clears its regex
\* cache; no plugin of the list returns an error
update_config(plugin, config) ==
    [plugin |-> IF config.sections[plugin.name]
                THEN [plugin EXCEPT !.config = config.version,
                                    !.cache = IF plugin.name \in CacheClearing THEN {} ELSE @]
                ELSE plugin,
     err |-> NoErr]
\* Vec::retain(|p| p.name() != name)
retain_others(plugins, name) == SelectSeq(plugins, LAMBDA p : p.name # name)
\* `self.plugins.iter_mut().find(|p| p.name() == name)`: its place, or 0
find_plugin(plugins, name) ==
    IF \E i \in 1..Len(plugins) : plugins[i].name = name
    THEN CHOOSE i \in 1..Len(plugins) :
             plugins[i].name = name /\ \A j \in 1..(i - 1) : plugins[j].name # name
    ELSE 0
\* a manager that drops the plugin and constructs it again whenever it is
\* enabled
init_or_update_plugin_recreate(m, name, enabled, config) ==
    IF enabled
    THEN [plugins |-> Append(retain_others(m.plugins, name),
                             plugin_new(name, config, m.created + 1)),
          created |-> m.created + 1]
    ELSE [m EXCEPT !.plugins = retain_others(@, name)]
\* PluginManager::init_or_update_plugin
init_or_update_plugin(m, name, enabled, config) ==
    IF enabled
    THEN IF find_plugin(m.plugins, name) # 0
         THEN IF update_config(m.plugins[find_plugin(m.plugins, name)], config).err # NoErr
              THEN [plugins |-> Append(retain_others(m.plugins, name),
                                       plugin_new(name, config, m.created + 1)),
                    created |-> m.created + 1]
              ELSE [m EXCEPT !.plugins[find_plugin(m.plugins, name)] =
                                 update_config(@, config).plugin]
         ELSE [plugins |-> Append(m.plugins, plugin_new(name, config, m.created + 1)),
               created |-> m.created + 1]
    ELSE IF \E i \in 1..Len(m.plugins) : m.plugins[i].name = name
         THEN [m EXCEPT !.plugins = retain_others(@, name)]
         ELSE m
\* PluginManager::init: the plugins of the list, one after the other
RECURSIVE manager_init(_, _, _)
manager_init(m, config, i) ==
    IF i > MaxPmPlugins THEN m
    ELSE Bind(init_or_update_plugin(m, RegisteredPlugins[i],
                                    plugin_enabled(config, RegisteredPlugins[i]), config),
              LAMBDA m1 : manager_init(m1, config, i + 1))

(***************************************************************************)
(* Reloading the configuration.                                            *)
(***************************************************************************)
\* Config::default(): no plugin is enabled and no section is filled
DefaultFile ==
    [plugins |-> [n \in PluginNames |-> FALSE], sections |-> [n \in PluginNames |-> FALSE]]
\* Config::load(path): a missing file is written with the defaults, which
\* are returned; a file that cannot be read or parsed is an error
Config_load(source) ==
    CASE source.status = "missing" -> [err |-> NoErr, file |-> DefaultFile]
      [] source.status = "unreadable" ->
             [err |-> "Failed to read config file", file |-> DefaultFile]
      [] source.status = "unparsable" ->
             [err |-> "Failed to parse config file", file |-> DefaultFile]
      [] OTHER -> [err |-> NoErr, file |-> source.file]
\* a handler that falls back to the defaults when the file cannot be loaded
reload_config_or_default(config, source) ==
    [err |-> Config_load(source).err,
     config |-> [version |-> config.version + 1,
                 plugins |-> Config_load(source).file.plugins,
                 sections |-> Config_load(source).file.sections]]
\* CommandHandler::reload_config: `self.config = new_config`, after the `?`
reload_config(config, source) ==
    IF Config_load(source).err # NoErr
    THEN [err |-> Config_load(source).err, config |-> config]
    ELSE [err |-> NoErr,
          config |-> [version |-> config.version + 1,
                      plugins |-> Config_load(source).file.plugins,
                      sections |-> Config_load(source).file.sections]]
\* handle_request, IpcRequest::Reload; h is the handler: its config and its
\* plugin manager
handle_reload(h, source) ==
    IF reload_config(h.config, source).err # NoErr
    THEN [h EXCEPT !.config = reload_config(h.config, source).config,
                   !.response = "Error", !.err = reload_config(h.config, source).err]
    ELSE Bind(manager_init([plugins |-> h.plugins, created |-> h.created],
                           reload_config(h.config, source).config, 1),
              LAMBDA m : [config |-> reload_config(h.config, source).config,
                          plugins |-> m.plugins, created |-> m.created,
                          response |-> "Success", err |-> NoErr])
\* ScratchpadManager::new and SingletonManager::new: nothing is bound
ScratchpadManager_new ==
    [scratchpads |-> [n \in Names |-> NoWin],
     visibility |-> [n \in Names |-> Absent],
     original_workspaces |-> [n \in Names |-> NoStr],
     previous_focused_windows |-> [n \in Names |-> NoEntry],
     dynamic_configs |-> [n \in Names |-> NoConfig]]
SingletonManager_new == [singletons |-> [n \in SingletonNames |-> NoWin]]
\* ScratchpadsPlugin::init and SingletonPlugin::init: `self.manager` is a
\* new manager
ScratchpadsPlugin_init(manager, config) == ScratchpadManager_new
SingletonPlugin_init(manager, config) == SingletonManager_new
\* ScratchpadsPlugin::update_config and SingletonPlugin::update_config:
\* `self.config = config.clone()`, the manager is kept
ScratchpadsPlugin_update_config(manager, config) == manager
SingletonPlugin_update_config(manager, config) == manager
\* the instance of the plugin `name` in the list, or 0
instance_of(plugins, name) ==
    IF find_plugin(plugins, name) = 0 THEN 0 ELSE plugins[find_plugin(plugins, name)].inst

(***************************************************************************)
(* The daemon: its main loop, the tasks of the client connections, the     *)
(* mutex of the command handler and the shutdown notifier.                 *)
(***************************************************************************)
\* clients that connect in a run
MaxConns == 3
ConnIds == 1..MaxConns
NoConn == 0
\* IpcRequest, and bytes that do not deserialize to one
RequestKinds == {"Ping", "Reload", "Shutdown", "ScratchpadToggle", "Invalid"}
NoTask == [pc |-> "none", kind |-> "none", step |-> 0]
\* what handle_request does with a request while it holds the handler: the
\* plugins are offered it, and what no plugin takes falls back to the handler
StepsOf(kind) ==
    CASE kind = "ScratchpadToggle" -> << "through_plugins" >>
      [] kind = "Ping" -> << "through_plugins", "pong" >>
      [] kind = "Shutdown" -> << "through_plugins", "notify_one" >>
      [] kind = "Reload" -> << "through_plugins", "reload_config", "plugin_manager_init" >>
      [] OTHER -> << >>
\* a lock that is given to whoever asks
Mutex_lock_unguarded(lock, c) == [lock |-> c, acquired |-> TRUE]
\* tokio::sync::Mutex::lock: given when no task holds it, else the task waits
Mutex_lock(lock, c) ==
    IF lock = NoConn THEN [lock |-> c, acquired |-> TRUE]
    ELSE [lock |-> lock, acquired |-> FALSE]
\* a notifier that only wakes a task that waits and stores no permit
notify_waiting(notify, main_pc) ==
    [permit |-> notify.permit \/ main_pc = "select",
     fired |-> IF notify.fired = "never" THEN main_pc ELSE notify.fired]
\* tokio::sync::Notify::notify_one: the waiting task is woken, or a permit is
\* stored for the next `notified().await`; a woken task that drops its
\* Notified future unconsumed hands the notification on, so either way the
\* permit stays until some `notified()` completes
notify_one(notify, main_pc) ==
    [permit |-> TRUE, fired |-> IF notify.fired = "never" THEN main_pc ELSE notify.fired]
\* the calls of one connection are not interleaved with another's
Contiguous(calls) ==
    \A i \in 1..Len(calls) : \A k \in i..Len(calls) :
        calls[i] = calls[k] => \A j \in i..k : calls[j] = calls[i]

(***************************************************************************)
(* The plugin manager distributing the compositor's events.                *)
(***************************************************************************)
EventKinds ==
    {"WorkspaceActivated", "WindowOpenedOrChanged", "WindowLayoutsChanged", "WindowClosed"}
\* the lists of the manager that the model follows: the plugins that
\* override is_interested_in_event and one that does not; window_order and
\* swallow in either order
EvLists ==
    << << "empty", "window_rule", "window_order", "swallow" >>,
       << "empty", "window_rule", "swallow", "window_order" >> >>
EvNames == {EvLists[1][i] : i \in 1..Len(EvLists[1])}
\* Plugin::is_interested_in_event, the default of the trait
Plugin_is_interested_in_event(kind) == FALSE
\* PluginEnum::is_interested_in_event: the plugin's own, or the default
is_interested_in_event(name, kind) ==
    CASE name = "empty" -> kind = "WorkspaceActivated"
      [] name = "swallow" ->
             kind \in {"WindowOpenedOrChanged", "WindowClosed", "WindowFocusTimestampChanged"}
      [] name = "window_order" -> kind \in {"WindowLayoutsChanged", "WindowOpenedOrChanged"}
      [] OTHER -> Plugin_is_interested_in_event(kind)
\* distribute_event is at no event
NoDist ==
    [seq |-> 0, kind |-> "none", i |-> 0, busy |-> "none", will |-> "none", taken |-> << >>]
\* a manager that gives up the event when a plugin fails
after_handle_event_abort(d, plugins, result) ==
    IF result = "err" THEN [d EXCEPT !.i = Len(plugins) + 1, !.busy = "none", !.will = "none"]
    ELSE [d EXCEPT !.i = @ + 1, !.busy = "none", !.will = "none"]
\* distribute_event after `plugin.handle_event(event, niri).await`: an Err
\* is logged and notified, and the loop goes on with the next plugin
after_handle_event(d, plugins, result) ==
    [d EXCEPT !.i = @ + 1, !.busy = "none", !.will = "none"]

(***************************************************************************)
(* window_utils: the position of a window from a margin, and back.  A      *)
(* 32-bit word, u32 or i32, is written as the i32 that has its bits, so    *)
(* that `as i32` and `as u32` keep the number and the u32 above i32::MAX   *)
(* are the negative ones.                                                  *)
(***************************************************************************)
MaxI32 == 2147483647
MinI32 == (0 - MaxI32) - 1
\* the words with the largest u32, u32::MAX, and the first above i32::MAX
MaxU32Word == 0 - 1
HalfU32Word == MinI32
\* a < b for u32
u32_lt(a, b) == IF (a >= 0) = (b >= 0) THEN a < b ELSE a >= 0
\* a - b does not fit an i32
i32_sub_overflows(a, b) == (b > 0 /\ a < MinI32 + b) \/ (b < 0 /\ a > MaxI32 + b)
\* a - b modulo 2^32, for u32 and i32 alike
wrapping_sub(a, b) ==
    IF b > 0 /\ a < MinI32 + b THEN ((a - MinI32) + (MaxI32 - b)) + 1
    ELSE IF b < 0 /\ a > MaxI32 + b THEN ((a - MaxI32) + (MinI32 - b)) - 1
    ELSE a - b
\* a / 2 for u32
u32_half(a) == IF a >= 0 THEN a \div 2 ELSE ((a \div 2) + MaxI32) + 1
\* the result of an arithmetic expression: a word, or the panic of a
\* subtraction that overflowed
Word(v) == [ok |-> TRUE, v |-> v]
Panic == [ok |-> FALSE, v |-> 0]
\* `a - b` for u32: a build with overflow checks panics when a < b, one
\* without wraps
u32_sub(a, b, overflow_checks) ==
    IF ~a.ok \/ (overflow_checks /\ u32_lt(a.v, b)) THEN Panic ELSE Word(wrapping_sub(a.v, b))
\* `a - b` for i32, likewise
i32_sub(a, b, overflow_checks) ==
    IF ~a.ok \/ (overflow_checks /\ i32_sub_overflows(a.v, b)) THEN Panic
    ELSE Word(wrapping_sub(a.v, b))
\* `x / 2` for u32
half(x) == IF x.ok THEN Word(u32_half(x.v)) ELSE Panic
\* the pair of coordinates, unless one of them panicked
NoPos == [ok |-> FALSE, x |-> 0, y |-> 0]
position(x, y) == IF x.ok /\ y.ok THEN [ok |-> TRUE, x |-> x.v, y |-> y.v] ELSE NoPos
\* window_utils::calculate_position; a is the record of its arguments
window_utils_calculate_position(a) ==
    CASE a.direction = "fromTop" ->
             position(half(u32_sub(Word(a.output_width), a.window_width, a.overflow_checks)),
                      Word(a.margin))
      [] a.direction = "fromBottom" ->
             position(half(u32_sub(Word(a.output_width), a.window_width, a.overflow_checks)),
                      u32_sub(u32_sub(Word(a.output_height), a.window_height,
                                      a.overflow_checks),
                              a.margin, a.overflow_checks))
      [] a.direction = "fromLeft" ->
             position(Word(a.margin),
                      half(u32_sub(Word(a.output_height), a.window_height, a.overflow_checks)))
      [] OTHER ->
             position(u32_sub(u32_sub(Word(a.output_width), a.window_width, a.overflow_checks),
                              a.margin, a.overflow_checks),
                      half(u32_sub(Word(a.output_height), a.window_height, a.overflow_checks)))
\* `margin.max(0) as u32`
max0(margin) == IF margin.ok /\ margin.v < 0 THEN Word(0) ELSE margin
\* window_utils::extract_margin
extract_margin(a, pos) ==
    CASE a.direction = "fromTop" -> max0(Word(pos.y))
      [] a.direction = "fromBottom" ->
             max0(i32_sub(i32_sub(Word(a.output_height), a.window_height, a.overflow_checks),
                          pos.y, a.overflow_checks))
      [] a.direction = "fromLeft" -> max0(Word(pos.x))
      [] OTHER ->
             max0(i32_sub(i32_sub(Word(a.output_width), a.window_width, a.overflow_checks),
                          pos.x, a.overflow_checks))

(***************************************************************************)
(* The rules of the swallow plugin (plugins/swallow.rs,                    *)
(* plugins/window_utils.rs).  An Option<Vec<String>> is a record           *)
(* [some, v]; a window is [id, app_id, title].                             *)
(***************************************************************************)
NoPatterns == [some |-> FALSE, v |-> << >>]
SomePatterns(v) == [some |-> TRUE, v |-> v]
\* a key of a [[swallow]] table: absent, a string, or a list of strings
AbsentKey == [is |-> "absent"]
StringKey(p) == [is |-> "string", s |-> p]
ListKey(v) == [is |-> "list", v |-> v]
\* #[serde(default, deserialize_with = "deserialize_string_or_vec")]
deserialize_string_or_vec(key) ==
    CASE key.is = "absent" -> NoPatterns
      [] key.is = "string" -> SomePatterns(<< key.s >>)
      [] key.is = "list" -> SomePatterns(key.v)
\* WindowMatcherCache::matches: any app_id pattern on the app_id, or any title
\* pattern on the title
WindowMatcherCache_matches(window_app_id, window_title, matcher) ==
    \/ /\ matcher.app_id.some
       /\ window_app_id # NoStr
       /\ \E i \in DOMAIN matcher.app_id.v : is_match(matcher.app_id.v[i], window_app_id)
    \/ /\ matcher.title.some
       /\ \E i \in DOMAIN matcher.title.v : is_match(matcher.title.v[i], window_title)
\* SwallowPlugin::matches_window, called without exclude patterns
matches_window(window, app_id_patterns, title_patterns) ==
    IF ~app_id_patterns.some /\ ~title_patterns.some THEN TRUE
    ELSE WindowMatcherCache_matches(window.app_id, window.title,
                                    [app_id |-> app_id_patterns, title |-> title_patterns])
\* SwallowPlugin::check_child_window_matches_rule
check_child_window_matches_rule(child_window, rule) ==
    IF ~(rule.child_app_id.some \/ rule.child_title.some) THEN TRUE
    ELSE matches_window(child_window, rule.child_app_id, rule.child_title)
\* a walk of the queue that starts at the oldest entry
RECURSIVE first_match_from(_, _, _, _, _)
first_match_from(rule, child_window_id, queue, windows, i) ==
    IF i > Len(queue) THEN NoWin
    ELSE IF queue[i] = child_window_id \/ queue[i] \notin DOMAIN windows
    THEN first_match_from(rule, child_window_id, queue, windows, i + 1)
    ELSE IF ~(rule.parent_app_id.some \/ rule.parent_title.some) THEN queue[i]
    ELSE IF matches_window(windows[queue[i]], rule.parent_app_id, rule.parent_title)
    THEN queue[i]
    ELSE first_match_from(rule, child_window_id, queue, windows, i + 1)
search_queue_oldest_first(rule, child_window_id, queue, windows, i) ==
    first_match_from(rule, child_window_id, queue, windows, 1)
\* `for &prev_focused_id in self.focused_window_queue.iter().rev()`, from the
\* i-th entry down
RECURSIVE search_queue(_, _, _, _, _)
search_queue(rule, child_window_id, queue, windows, i) ==
    IF i < 1 THEN NoWin
    ELSE IF queue[i] = child_window_id \/ queue[i] \notin DOMAIN windows
    THEN search_queue(rule, child_window_id, queue, windows, i - 1)
    ELSE IF ~(rule.parent_app_id.some \/ rule.parent_title.some) THEN queue[i]
    ELSE IF matches_window(windows[queue[i]], rule.parent_app_id, rule.parent_title)
    THEN queue[i]
    ELSE search_queue(rule, child_window_id, queue, windows, i - 1)
\* SwallowPlugin::check_focused_window_matches_parent_rule: the id of the
\* parent, or NoWin for None; focused is NoWin when no window is focused
check_focused_window_matches_parent_rule(rule, child_window_id, focused, queue, windows) ==
    IF focused = NoWin THEN NoWin
    ELSE IF focused = child_window_id
    THEN search_queue(rule, child_window_id, queue, windows, Len(queue))
    ELSE IF ~(rule.parent_app_id.some \/ rule.parent_title.some) THEN focused
    ELSE IF matches_window(windows[focused], rule.parent_app_id, rule.parent_title)
    THEN focused
    ELSE NoWin

(***************************************************************************)
(* The manager with plugins whose update_config may return an error: the   *)
(* trait lets it, though no plugin of the list does.  `failing` are the    *)
(* names of the plugins whose update_config fails in this init.            *)
(***************************************************************************)
\* a manager that pushes the new instance without dropping the old one
init_or_update_plugin_push(m, name, enabled, config, failing) ==
    IF enabled
    THEN [plugins |-> Append(m.plugins, plugin_new(name, config, m.created + 1)),
          created |-> m.created + 1]
    ELSE [m EXCEPT !.plugins = retain_others(@, name)]
\* PluginManager::init_or_update_plugin
init_or_update_plugin_with(m, name, enabled, config, failing) ==
    IF enabled
    THEN IF find_plugin(m.plugins, name) # 0
         THEN IF name \in failing
              THEN [plugins |-> Append(retain_others(m.plugins, name),
                                       plugin_new(name, config, m.created + 1)),
                    created |-> m.created + 1]
              ELSE [m EXCEPT !.plugins[find_plugin(m.plugins, name)] =
                                 update_config(@, config).plugin]
         ELSE [plugins |-> Append(m.plugins, plugin_new(name, config, m.created + 1)),
               created |-> m.created + 1]
    ELSE IF \E i \in 1..Len(m.plugins) : m.plugins[i].name = name
         THEN [m EXCEPT !.plugins = retain_others(@, name)]
         ELSE m
\* PluginManager::init
RECURSIVE manager_init_with(_, _, _, _)
manager_init_with(m, config, failing, i) ==
    IF i > MaxPmPlugins THEN m
    ELSE manager_init_with(
             init_or_update_plugin_with(m, RegisteredPlugins[i],
                                        plugin_enabled(config, RegisteredPlugins[i]),
                                        config, failing),
             config, failing, i + 1)

(***************************************************************************)
(* The daemon serving scratchpad requests, and the compositor's users.     *)
(***************************************************************************)
VARIABLES
    scratchpads,               \* ScratchpadManager.scratchpads: name -> window id
    visibility,                \* ScratchpadManager.visibility: name -> bool
    original_workspaces,       \* ScratchpadManager.original_workspaces
    previous_focused_windows,  \* ScratchpadManager.previous_focused_windows
    dynamic_configs,           \* ScratchpadManager.dynamic_configs
    windows,                   \* compositor: the window list, in its order
    focused_window,            \* compositor: focused window id or NoWin
    focused_ws,                \* compositor: index of the focused workspace
    opened,                    \* compositor: ids used so far
    pc,                        \* "idle", or "responded" with the response in last
    last,                      \* the request just served, and what it did
    hist,                      \* the request served before it, if a plain toggle
    window_pid_map,            \* SwallowPlugin.window_pid_map: pid -> window ids
    focused_window_queue,      \* SwallowPlugin.focused_window_queue
    sw_windows,                \* compositor, swallow part: id -> "new", "open", "closed"
    scanned,                   \* SwallowPlugin: the initial scan has run
    scan_list,                 \* the window list the running initial scan has read
    sw_pending,                \* compositor events the daemon has not handled yet
    sw_last,                   \* the swallow event just handled
    singletons,                \* SingletonManager.singletons: name -> window id
    sg_last,                   \* the singleton toggle just served
    wr_workspaces,             \* compositor: the workspace list, in its order
    wr_where,                  \* compositor: window id -> id of its workspace
    wr_last,                   \* the window rule event just handled
    em_config,                 \* EmptyPluginConfig.workspaces: key -> command
    em_comp,                   \* compositor: focused workspace, workspaces with a window
    em_plugin,                 \* EmptyPlugin.last_workspace and .workspace_empty
    em_last,                   \* the empty plugin event just handled
    wo_windows,                \* compositor: the windows with their columns, in its order
    wo_focus,                  \* compositor: the focused window of the layout
    wo_last,                   \* the reorder pass just run
    pm_plugins,                \* PluginManager.plugins
    pm_created,                \* plugin instances constructed so far
    pm_config,                 \* the configuration the handler holds
    pm_last,                   \* the call of the manager just made
    dm_main,                   \* run_daemon_loop: where the main task is
    dm_conns,                  \* the client connections and their tasks
    dm_lock,                   \* the mutex of the command handler: its holder
    dm_notify,                 \* the shutdown Notify: its permit
    dm_calls,                  \* the calls made on handler and plugins, by connection
    dm_socket,                 \* the socket file exists
    ev_plugins,                \* PluginManager.plugins: the names, in the list's order
    ev_pending,                \* the event channel: events not yet distributed
    ev_dist,                   \* distribute_event: the event, the plugin it is at
    ev_delivered,              \* the handle_event calls made: << event, plugin >>
    ev_errors,                 \* the handle_event calls that returned Err
    mg_in,                     \* the arguments of calculate_position, and the build
    mg_pos,                    \* the position calculate_position returned
    mg_out,                    \* the margin extract_margin returned
    ml_in,                     \* the weights of the windows in the columns 1..n, the
                               \* HashMap's order and the focused window
    ml_out,                    \* the plan the move loop has left
    ep_pc,                     \* event_listener_loop: where the task is
    ep_first,                  \* is_first_connection
    ep_stream,                 \* what read_event will return on the open connection
    ep_accepted,               \* the events the compositor has delivered, in order
    ep_channel,                \* the events sent on the channel, in order
    ep_open,                   \* the receiver of the channel is alive
    ep_notified,               \* send_notification calls
    sr_in,                     \* a swallow rule of the file, and the windows it is tried on
    sr_out,                    \* what the check of the rule has returned
    requests,                  \* IPC requests served so far
    events,                    \* compositor events so far
    failures                   \* compositor requests that failed so far

spVars == << scratchpads, visibility, original_workspaces, previous_focused_windows,
             dynamic_configs, windows, focused_window, focused_ws, opened, pc, last, hist >>
swVars == << window_pid_map, focused_window_queue, sw_windows, scanned, scan_list,
            sw_pending, sw_last >>
\* the other plugins and the plugin manager
sgVars == << singletons, sg_last >>
wrVars == << wr_workspaces, wr_where, wr_last >>
emVars == << em_config, em_comp, em_plugin, em_last >>
woVars == << wo_windows, wo_focus, wo_last >>
pmVars == << pm_plugins, pm_created, pm_config, pm_last >>
dmVars == << dm_main, dm_conns, dm_lock, dm_notify, dm_calls, dm_socket >>
evVars == << ev_plugins, ev_pending, ev_dist, ev_delivered, ev_errors >>
mgVars == << mg_in, mg_pos, mg_out >>
mlVars == << ml_in, ml_out >>
epVars == << ep_pc, ep_first, ep_stream, ep_accepted, ep_channel, ep_open, ep_notified >>
srVars == << sr_in, sr_out >>
plVars == << sgVars, wrVars, emVars, woVars, pmVars, dmVars, evVars, mgVars,
              mlVars, epVars, srVars >>
\* what the actions of one plugin leave alone of the others
sgOthers == << wrVars, emVars, woVars, pmVars, dmVars, evVars, mgVars,
              mlVars, epVars, srVars >>
wrOthers == << sgVars, emVars, woVars, pmVars, dmVars, evVars, mgVars,
              mlVars, epVars, srVars >>
emOthers == << sgVars, wrVars, woVars, pmVars, dmVars, evVars, mgVars,
              mlVars, epVars, srVars >>
woOthers == << sgVars, wrVars, emVars, pmVars, dmVars, evVars, mgVars,
              mlVars, epVars, srVars >>
pmOthers == << sgVars, wrVars, emVars, woVars, dmVars, evVars, mgVars,
              mlVars, epVars, srVars >>
dmOthers == << sgVars, wrVars, emVars, woVars, pmVars, evVars, mgVars,
              mlVars, epVars, srVars >>
evOthers == << sgVars, wrVars, emVars, woVars, pmVars, dmVars, mgVars,
              mlVars, epVars, srVars >>
mgOthers == << sgVars, wrVars, emVars, woVars, pmVars, dmVars, evVars, mlVars, epVars, srVars >>
mlOthers == << sgVars, wrVars, emVars, woVars, pmVars, dmVars, evVars, mgVars, epVars,
              srVars >>
epOthers == << sgVars, wrVars, emVars, woVars, pmVars, dmVars, evVars, mgVars, mlVars,
              srVars >>
srOthers == << sgVars, wrVars, emVars, woVars, pmVars, dmVars, evVars, mgVars, mlVars,
              epVars >>
vars == << spVars, swVars, plVars, requests, events, failures >>

\* a run serves at most MaxRequests requests among at most MaxEvents events
MaxRequests == 3
MaxEvents == 2
\* and the compositor fails at most MaxFailures requests
MaxFailures == 1

\* the failure index of a request that does not fail
NoFailure == 0
\* requests of one handler among which one may fail
MaxFail == 30
\* polls before which a window may appear: the first and the last
ArriveAt == {1, max_attempts}
NoArrival == [at |-> 0, id |-> NoWin]

\* what the environment decides during one request
Oracles ==
    {[failAt |-> f, arrive |-> NoArrival, spawnFails |-> FALSE] : f \in NoFailure..MaxFail}
    \cup {[failAt |-> f, arrive |-> [at |-> 1, id |-> w], spawnFails |-> FALSE] :
              f \in NoFailure..MaxFail, w \in WinIds \ opened}
    \cup {[failAt |-> NoFailure, arrive |-> [at |-> k, id |-> w], spawnFails |-> FALSE] :
              k \in ArriveAt, w \in WinIds \ opened}
    \cup {[failAt |-> NoFailure, arrive |-> NoArrival, spawnFails |-> TRUE]}

Machine(o) ==
    [err |-> NoErr, path |-> << >>, n |-> 0, failAt |-> o.failAt, acts |-> << >>,
     dims |-> << 0, 0 >>, fallback |-> FALSE, swallowed |-> FALSE,
     spawned |-> << >>, polls |-> 0, done |-> FALSE, arrive |-> o.arrive, spawnFails |-> o.spawnFails,
     windows |-> windows, focused_window |-> focused_window, focused_ws |-> focused_ws,
     scratchpads |-> scratchpads, visibility |-> visibility,
     original_workspaces |-> original_workspaces,
     previous_focused_windows |-> previous_focused_windows,
     dynamic_configs |-> dynamic_configs]

\* the window's rectangle meets the output's
OnScreenWin(w) ==
    /\ w.x < Output.width /\ w.x + w.w > 0
    /\ w.y < Output.height /\ w.y + w.h > 0
OnScreen(wins, id) == HasWindow(wins, id) /\ OnScreenWin(WinById(wins, id))

NoLast == [op |-> "none"]
NoHist == [name |-> "none"]

Served(op, name, dir, m) ==
    [op |-> op, name |-> name, dir |-> dir, err |-> m.err, path |-> m.path, acts |-> m.acts,
     n |-> m.n, failed |-> (m.failAt # NoFailure /\ m.failAt <= m.n),
     fallback |-> m.fallback, swallowed |-> m.swallowed, spawned |-> m.spawned, polls |-> m.polls,
     arrive |-> m.arrive,
     arrived |-> (m.arrive.at # 0 /\ HasWindow(m.windows, m.arrive.id)),
     pre |-> [scratchpads |-> scratchpads, visibility |-> visibility,
              previous_focused_windows |-> previous_focused_windows,
              dynamic_configs |-> dynamic_configs, windows |-> windows,
              focused_window |-> focused_window, focused_ws |-> focused_ws]]

Commit(op, name, dir, m) ==
    /\ scratchpads' = m.scratchpads
    /\ visibility' = m.visibility
    /\ original_workspaces' = m.original_workspaces
    /\ previous_focused_windows' = m.previous_focused_windows
    /\ dynamic_configs' = m.dynamic_configs
    /\ windows' = m.windows
    /\ focused_window' = m.focused_window
    /\ focused_ws' = m.focused_ws
    /\ opened' = opened \cup {m.windows[i].id : i \in 1..Len(m.windows)}
    /\ last' = Served(op, name, dir, m)
    /\ pc' = "responded"
    /\ requests' = requests + 1
    /\ failures' = failures + (IF m.failAt # NoFailure /\ m.failAt <= m.n THEN 1 ELSE 0)
    /\ UNCHANGED << hist, swVars, plVars, events >>

CoreInit ==
    /\ scratchpads = [n \in Names |-> NoWin]
    /\ visibility = [n \in Names |-> Absent]
    /\ original_workspaces = [n \in Names |-> NoStr]
    /\ previous_focused_windows = [n \in Names |-> NoEntry]
    /\ dynamic_configs = [n \in Names |-> NoConfig]
    /\ windows = << >>
    /\ focused_window = NoWin
    /\ focused_ws = 1
    /\ opened = {}
    /\ pc = "idle"
    /\ last = NoLast
    /\ hist = NoHist
    /\ window_pid_map = [p \in Pids |-> << >>]
    /\ focused_window_queue = << >>
    /\ sw_windows = [id \in SwIds |-> "new"]
    /\ scanned = FALSE
    /\ scan_list = NoList
    /\ sw_pending = << >>
    /\ sw_last = NoLast
    /\ requests = 0
    /\ events = 0
    /\ failures = 0
SgIdle ==
    /\ singletons = [n \in SingletonNames |-> NoWin]
    /\ sg_last = NoLast
WrIdle ==
    /\ wr_workspaces = ListWeb2
    /\ wr_where = [id \in WinIds |-> ListWeb2[1].id]
    /\ wr_last = NoLast
EmIdle ==
    /\ em_config = [k \in {} |-> NoStr]
    /\ em_comp = [focused |-> ListWeb2[1].id, busy |-> {}]
    /\ em_plugin = [last_workspace |-> NoStr,
                    workspace_empty |-> [i \in {to_string(w.idx) : w \in Workspaces} |-> Absent]]
    /\ em_last = NoLast
WoIdle ==
    /\ wo_windows = << >>
    /\ wo_focus = NoWin
    /\ wo_last = NoLast
\* PluginManager::new, before the first init
PmIdle ==
    /\ pm_plugins = << >>
    /\ pm_created = 0
    /\ pm_config = [version |-> 0, plugins |-> [n \in PluginNames |-> FALSE],
                    sections |-> [n \in PluginNames |-> FALSE]]
    /\ pm_last = NoLast
\* run_daemon_loop has bound the socket and enters its loop; no client yet
DmIdle ==
    /\ dm_main = [pc |-> "select", conn |-> NoConn, exit |-> "none"]
    /\ dm_conns = [c \in ConnIds |-> NoTask]
    /\ dm_lock = NoConn
    /\ dm_notify = [permit |-> FALSE, fired |-> "never"]
    /\ dm_calls = << >>
    /\ dm_socket = TRUE
\* no event has arrived
EvIdle ==
    /\ ev_plugins = EvLists[1]
    /\ ev_pending = << >>
    /\ ev_dist = NoDist
    /\ ev_delivered = {}
    /\ ev_errors = {}
\* no position is being computed
MgIdle ==
    /\ mg_in = [direction |-> "fromTop", output_width |-> Output.width,
                output_height |-> Output.height, window_width |-> 0, window_height |-> 0,
                margin |-> 0, overflow_checks |-> FALSE]
    /\ mg_pos = NoPos
    /\ mg_out = Panic
\* no move loop has run
MlIdle ==
    /\ ml_in = [weights |-> << >>, iter |-> << >>, focused |-> NoWin]
    /\ ml_out = NoPlan
\* no rule is being tried
SrIdle ==
    /\ sr_in = [kind |-> "none"]
    /\ sr_out = [kind |-> "none"]
\* the event listener has not been started
EpIdle ==
    /\ ep_pc = "idle"
    /\ ep_first = TRUE
    /\ ep_stream = << >>
    /\ ep_accepted = << >>
    /\ ep_channel = << >>
    /\ ep_open = TRUE
    /\ ep_notified = 0
Init ==
    CoreInit /\ SgIdle /\ WrIdle /\ EmIdle /\ WoIdle /\ PmIdle /\ DmIdle /\ EvIdle /\ MgIdle
    /\ MlIdle /\ EpIdle /\ SrIdle

\* piri scratchpads <name> toggle
IpcToggle(name, o) ==
    /\ pc = "idle"
    /\ requests < MaxRequests
    /\ o.failAt # NoFailure => failures < MaxFailures
    /\ Commit("toggle", name, Absent, handle_scratchpad_toggle(Machine(o), name))

\* piri scratchpads <name> add <direction>
AddNames == {"pad"}
AddDirections == {"fromLeft", "sideways"}
IpcAdd(name, direction, o) ==
    /\ pc = "idle"
    /\ requests < MaxRequests
    /\ o.failAt # NoFailure => failures < MaxFailures
    /\ o.arrive = NoArrival /\ ~o.spawnFails
    /\ Commit("add", name, direction, handle_scratchpad_add(Machine(o), name, direction))

InPath(path, label) == \E i \in 1..Len(path) : path[i] = label

\* the response is written.  What is remembered of the request: for a toggle
\* of a bound slot that returned Ok, the slot's state when it was called, and
\* whether it met no failure, found its window and did not have to move it
Respond ==
    /\ pc = "responded"
    /\ pc' = "idle"
    /\ last' = NoLast
    /\ hist' = IF /\ last.op = "toggle" /\ last.err = NoErr
                  /\ last.pre.scratchpads[last.name] # NoWin
               THEN [name |-> last.name,
                     id |-> last.pre.scratchpads[last.name],
                     vis |-> last.pre.visibility[last.name],
                     onscreen |-> OnScreen(last.pre.windows,
                                           last.pre.scratchpads[last.name]),
                     plain |-> /\ ~last.failed
                               /\ InPath(last.path, "bound")
                               /\ ~InPath(last.path, "moved")]
               ELSE NoHist
    /\ UNCHANGED << scratchpads, visibility, original_workspaces, previous_focused_windows,
                    dynamic_configs, windows, focused_window, focused_ws, opened, swVars, plVars,
                    requests, events, failures >>

FirstOn(wins, ws) ==
    IF \E i \in 1..Len(wins) : wins[i].workspace_id = WsIdOf(ws)
    THEN wins[CHOOSE i \in 1..Len(wins) :
                 /\ wins[i].workspace_id = WsIdOf(ws)
                 /\ \A j \in 1..(i - 1) : wins[j].workspace_id # WsIdOf(ws)].id
    ELSE NoWin

\* some program maps a window
OpenWindow(id) ==
    /\ pc = "idle"
    /\ events < MaxEvents
    /\ events' = events + 1
    /\ id \in WinIds \ opened
    /\ windows' = Append(windows, NewWindow(id, focused_ws))
    /\ focused_window' = id
    /\ opened' = opened \cup {id}
    /\ UNCHANGED << scratchpads, visibility, original_workspaces, previous_focused_windows,
                    dynamic_configs, focused_ws, pc, last, hist, swVars, plVars, requests,
                    failures >>

\* a window is closed
CloseWindow(id) ==
    /\ pc = "idle"
    /\ events < MaxEvents
    /\ events' = events + 1
    /\ HasWindow(windows, id)
    /\ LET NotId(w) == w.id # id
           rest == SelectSeq(windows, NotId)
       IN /\ windows' = rest
          /\ focused_window' = IF focused_window = id THEN FirstOn(rest, focused_ws)
                               ELSE focused_window
    /\ UNCHANGED << scratchpads, visibility, original_workspaces, previous_focused_windows,
                    dynamic_configs, focused_ws, opened, pc, last, hist, swVars, plVars, requests,
                    failures >>

\* the user focuses a window
UserFocus(id) ==
    /\ pc = "idle"
    /\ events < MaxEvents
    /\ events' = events + 1
    /\ HasWindow(windows, id)
    /\ focused_window # id
    /\ focused_window' = id
    /\ focused_ws' = IdxOfWsId(WinById(windows, id).workspace_id)
    /\ UNCHANGED << scratchpads, visibility, original_workspaces, previous_focused_windows,
                    dynamic_configs, windows, opened, pc, last, hist, swVars, plVars, requests,
                    failures >>

\* the user switches to another workspace
UserSwitchWorkspace(ws) ==
    /\ pc = "idle"
    /\ events < MaxEvents
    /\ events' = events + 1
    /\ ws # focused_ws
    /\ focused_ws' = ws
    /\ focused_window' = FirstOn(windows, ws)
    /\ UNCHANGED << scratchpads, visibility, original_workspaces, previous_focused_windows,
                    dynamic_configs, windows, opened, pc, last, hist, swVars, plVars, requests,
                    failures >>

(***************************************************************************)
(* The swallow plugin handling the compositor's events.                    *)
(***************************************************************************)
\* steps of one handler among which one may fail
MaxSwFail == 8
\* the compositor emits at most MaxSwEvents events in a run
MaxSwEvents == 6
\* of which at most MaxPending wait to be handled
MaxPending == 2
\* windows that change, take the focus or are closed after they are mapped
MaxSwBusy == 3
SwOpenIds == {id \in SwIds : sw_windows[id] = "open"}
\* the orders in which the compositor may list the given windows
Orders(S) ==
    {o \in [1..Cardinality(S) -> S] : \A i, j \in 1..Cardinality(S) : i # j => o[i] # o[j]}
\* the compositor lists the windows that have a pid in any order; the ones
\* without a pid, which no handler looks at, follow by id
RECURSIVE ById(_)
ById(S) == IF S = {} THEN << >>
           ELSE LET x == CHOOSE x \in S : \A y \in S : x <= y IN << x >> \o ById(S \ {x})
WindowOrders(S) ==
    {o \o ById({id \in S : PidOf(id) = NoPid}) : o \in Orders({id \in S : PidOf(id) # NoPid})}

SwMachine(failAt) ==
    [map |-> window_pid_map, queue |-> focused_window_queue, acts |-> << >>,
     err |-> NoErr, step |-> 0, failAt |-> failAt, parent |-> 0, outcome |-> "failed"]
\* only a window started from another window's process finds a parent: what
\* the compositor reports matters for it alone
SwViewsOf(id, failAt) ==
    IF AncestorPids(PidOf(id)) = {} \/ failAt \in 1..2 THEN {SwPlainView}
    ELSE IF failAt = NoFailure THEN SwViews
    ELSE {SwFullView}
\* and so do the requests after the window list has been read
SwFailsOf(id) == IF AncestorPids(PidOf(id)) # {} THEN NoFailure..MaxSwFail ELSE NoFailure..2
SwCommit(ev, id, v, s) ==
    /\ window_pid_map' = s.map
    /\ focused_window_queue' = s.queue
    /\ sw_last' = [op |-> ev, id |-> id, outcome |-> s.outcome, err |-> s.err,
                   acts |-> s.acts, parent |-> s.parent,
                   view |-> IF s.parent # 0 THEN v ELSE SwPlainView,
                   dropped |-> IF Len(focused_window_queue) > 0
                                  /\ Retain(s.queue, focused_window_queue[1]) = s.queue
                                  /\ ev # "closed"
                               THEN focused_window_queue[1] ELSE 0]
    /\ UNCHANGED << spVars, plVars, requests, failures, events >>

\* the compositor emits an event: it joins the stream the daemon reads
SwEmit(ev, id) ==
    /\ events < MaxSwEvents
    /\ events' = events + 1
    /\ Len(sw_pending) < MaxPending
    /\ sw_pending' = Append(sw_pending, [ev |-> ev, id |-> id])
    /\ sw_last' = SwIdle
    /\ UNCHANGED << window_pid_map, focused_window_queue, scanned, scan_list,
                    spVars, plVars, requests, failures >>
\* the daemon takes the next event of the stream
SwTake(ev, id) ==
    /\ Len(sw_pending) > 0
    /\ Head(sw_pending) = [ev |-> ev, id |-> id]
    /\ sw_pending' = Tail(sw_pending)
    /\ UNCHANGED << sw_windows, scanned, scan_list >>

\* compositor: a window is mapped (the compositor numbers its windows in the
\* order it maps them) and WindowOpenedOrChanged is emitted
CompOpen(id) ==
    /\ sw_windows[id] = "new"
    /\ \A j \in SwIds : j < id => sw_windows[j] # "new"
    /\ sw_windows' = [sw_windows EXCEPT ![id] = "open"]
    /\ SwEmit("opened", id)
\* compositor: a window changes and WindowOpenedOrChanged is emitted
CompChange(id) ==
    /\ sw_windows[id] = "open"
    /\ UNCHANGED sw_windows
    /\ SwEmit("changed", id)
\* compositor: a window is closed and WindowClosed is emitted
CompClose(id) ==
    /\ sw_windows[id] = "open"
    /\ sw_windows' = [sw_windows EXCEPT ![id] = "closed"]
    /\ SwEmit("closed", id)
\* compositor: a window takes the focus
CompFocus(id) ==
    /\ sw_windows[id] = "open"
    /\ UNCHANGED sw_windows
    /\ SwEmit("focus", id)

\* Event::WindowOpenedOrChanged, the first for this id; the window list the
\* handler reads is the compositor's at the time of handling
SwWindowOpened(id, failAt) ==
    /\ SwTake("opened", id)
    /\ failAt \in SwFailsOf(id)
    /\ \E order \in WindowOrders(SwOpenIds), v \in SwViewsOf(id, failAt) :
           SwCommit("opened", id, v, handle_window_opened(SwMachine(failAt), id, order, v))

\* Event::WindowOpenedOrChanged for an id that had one before
SwWindowChanged(id, failAt) ==
    /\ SwTake("changed", id)
    /\ failAt \in SwFailsOf(id)
    /\ \E order \in WindowOrders(SwOpenIds), v \in SwViewsOf(id, failAt) :
           SwCommit("changed", id, v, handle_window_opened(SwMachine(failAt), id, order, v))

\* Event::WindowClosed
SwWindowClosed(id) ==
    /\ SwTake("closed", id)
    /\ SwCommit("closed", id, SwPlainView, handle_window_closed(SwMachine(NoFailure), id))

\* Event::WindowFocusTimestampChanged
SwWindowFocused(id) ==
    /\ SwTake("focus", id)
    /\ SwCommit("focus", id, SwPlainView, handle_focus_timestamp_changed(SwMachine(NoFailure), id))

\* the background task of SwallowPlugin::new has read the window list
SwScanList ==
    /\ ~scanned /\ scan_list = NoList
    /\ \E order \in WindowOrders(SwOpenIds) : scan_list' = order
    /\ sw_last' = SwIdle
    /\ UNCHANGED << window_pid_map, focused_window_queue, sw_windows, scanned, sw_pending,
                    spVars, plVars, requests, failures, events >>
\* and, having locked the map, writes what it has read
SwInitialScan(failAt) ==
    /\ ~scanned /\ scan_list # NoList
    /\ scanned' = TRUE
    /\ scan_list' = NoList
    /\ SwCommit("scan", 0, SwPlainView, perform_initial_scan(SwMachine(failAt), scan_list))
    /\ UNCHANGED << sw_windows, sw_pending >>

NextSwallow ==
    \/ \E id \in SwIds : CompOpen(id)
    \/ \E id \in 1..MaxSwBusy : CompChange(id)
    \/ \E id \in 1..MaxSwBusy : CompClose(id)
    \/ \E id \in 1..MaxSwBusy : CompFocus(id)
    \/ \E id \in SwIds, f \in NoFailure..MaxSwFail : SwWindowOpened(id, f)
    \/ \E id \in SwIds, f \in NoFailure..MaxSwFail : SwWindowChanged(id, f)
    \/ \E id \in SwIds : SwWindowClosed(id)
    \/ \E id \in SwIds : SwWindowFocused(id)
    \/ SwScanList
    \/ \E f \in NoFailure..1 : SwInitialScan(f)

SpecSwallow == Init /\ [][NextSwallow]_vars

Next ==
    \/ \E name \in Names, o \in Oracles : IpcToggle(name, o)
    \/ \E name \in AddNames, d \in AddDirections, o \in Oracles : IpcAdd(name, d, o)
    \/ Respond
    \/ \E id \in WinIds : OpenWindow(id)
    \/ \E id \in WinIds : CloseWindow(id)
    \/ \E id \in WinIds : UserFocus(id)
    \/ \E ws \in WsIdx : UserSwitchWorkspace(ws)

Spec == Init /\ [][Next]_vars

(***************************************************************************)
(* The daemon serving singleton requests.                                  *)
(***************************************************************************)
SgMachine(o) ==
    [err |-> NoErr, path |-> << >>, n |-> 0, failAt |-> o.failAt, acts |-> << >>,
     swallowed |-> FALSE, spawned |-> << >>, polls |-> 0, done |-> FALSE, found |-> NoWin,
     arrive |-> o.arrive, spawnFails |-> o.spawnFails,
     windows |-> windows, focused_window |-> focused_window, focused_ws |-> focused_ws,
     singletons |-> singletons]

\* requests of one singleton toggle among which one may fail
MaxSgFail == 8
SgOracles == {o \in Oracles : o.failAt <= MaxSgFail}

\* piri singleton <name> toggle
IpcSingletonToggle(name, o) ==
    /\ pc = "idle"
    /\ pc' = "responded"
    /\ requests < MaxRequests
    /\ o.failAt # NoFailure => failures < MaxFailures
    /\ LET m == singleton_toggle(SgMachine(o), name, get_singleton(name)) IN
       /\ singletons' = m.singletons
       /\ windows' = m.windows
       /\ focused_window' = m.focused_window
       /\ focused_ws' = m.focused_ws
       /\ opened' = opened \cup {m.windows[i].id : i \in 1..Len(m.windows)}
       /\ sg_last' = [op |-> "toggle", name |-> name, err |-> m.err, path |-> m.path,
                      acts |-> m.acts, spawned |-> m.spawned,
                      pre |-> [singletons |-> singletons, windows |-> windows]]
       /\ requests' = requests + 1
       /\ failures' = failures + (IF m.failAt # NoFailure /\ m.failAt <= m.n THEN 1 ELSE 0)
    /\ UNCHANGED << scratchpads, visibility, original_workspaces, previous_focused_windows,
                    dynamic_configs, last, hist, swVars, sgOthers, events >>
\* the response is written
SgRespond ==
    /\ pc = "responded"
    /\ pc' = "idle"
    /\ sg_last' = NoLast
    /\ UNCHANGED << scratchpads, visibility, original_workspaces, previous_focused_windows,
                    dynamic_configs, windows, focused_window, focused_ws, opened, last, hist,
                    singletons, swVars, sgOthers, requests, events, failures >>

NextSingleton ==
    \/ \E name \in SingletonNames, o \in SgOracles : IpcSingletonToggle(name, o)
    \/ SgRespond
    \/ \E id \in WinIds : OpenWindow(id)
    \/ \E id \in WinIds : CloseWindow(id)
    \/ \E id \in WinIds : UserFocus(id)

SpecSingleton == Init /\ [][NextSingleton]_vars

(***************************************************************************)
(* The window rule plugin handling the compositor's events, and the        *)
(* resolution of workspace targets.                                        *)
(***************************************************************************)
\* the compositor may list its workspaces in any order
WrInputs ==
    /\ wr_workspaces \in WorkspaceLists
    /\ wr_where = [id \in WinIds |-> 11]
    /\ wr_last = NoLast
InitWindowRule ==
    CoreInit /\ SgIdle /\ WrInputs /\ EmIdle /\ WoIdle /\ PmIdle /\ DmIdle /\ EvIdle /\ MgIdle
    /\ MlIdle /\ EpIdle /\ SrIdle

\* requests of one event among which one may fail
MaxWrFail == 3
\* a window as the event carries it
WrWindow(id) == [id |-> id, app_id |-> AppIdOf(id), title |-> TitleOf(id)]
WrMachine(failAt) ==
    [step |-> 0, failAt |-> failAt, failed |-> FALSE, err |-> NoErr, tried |-> << >>,
     matched |-> << >>, moves |-> << >>, where |-> wr_where]

\* Event::WindowOpenedOrChanged
WrWindowOpenedOrChanged(id, failAt) ==
    /\ events < MaxEvents
    /\ events' = events + 1
    /\ LET s == rule_loop(WrMachine(failAt), WrWindow(id), wr_workspaces, 1) IN
       /\ wr_where' = s.where
       /\ wr_last' = [op |-> "opened", id |-> id, err |-> s.err, tried |-> s.tried,
                      matched |-> s.matched, moves |-> s.moves, failed |-> s.failAt # NoFailure /\ s.failAt <= s.step]
    /\ UNCHANGED << wr_workspaces, spVars, swVars, wrOthers, requests, failures >>
\* any other event changes nothing
WrOtherEvent ==
    /\ events < MaxEvents
    /\ events' = events + 1
    /\ wr_last' = [op |-> "other"]
    /\ UNCHANGED << wr_workspaces, wr_where, spVars, swVars, wrOthers, requests, failures >>

\* the targets a rule may name
Targets == {<< "1" >>, << "2" >>, << "0", "2" >>, << "9" >>, S_web, S_foot}
\* window_utils::match_workspace and WindowRulePlugin::match_workspace are
\* given a target and the compositor's list
WrResolve(t) ==
    /\ wr_last' = [op |-> "resolve", target |-> t,
                   utils |-> match_workspace(t, wr_workspaces),
                   rule |-> rule_match_workspace(t, wr_workspaces)]
    /\ UNCHANGED << wr_workspaces, wr_where, spVars, swVars, wrOthers, requests, events,
                    failures >>

NextWindowRule ==
    \/ \E id \in WinIds, f \in NoFailure..MaxWrFail : WrWindowOpenedOrChanged(id, f)
    \/ WrOtherEvent
    \/ \E t \in Targets : WrResolve(t)

SpecWindowRule == InitWindowRule /\ [][NextWindowRule]_vars

(***************************************************************************)
(* The empty plugin handling the compositor's events.                      *)
(***************************************************************************)
\* any configuration over the keys
EmInputs ==
    /\ em_config \in {[k \in keys |-> CommandOf(k)] : keys \in SUBSET EmptyKeys}
    /\ em_comp = [focused |-> 11, busy |-> {}]
    /\ em_plugin = [last_workspace |-> NoStr,
                    workspace_empty |-> [i \in {to_string(w.idx) : w \in Workspaces} |-> Absent]]
    /\ em_last = NoLast
InitEmpty ==
    CoreInit /\ SgIdle /\ WrIdle /\ EmInputs /\ WoIdle /\ PmIdle /\ DmIdle /\ EvIdle /\ MgIdle
    /\ MlIdle /\ EpIdle /\ SrIdle

WorkspaceById(id) == CHOOSE w \in Workspaces : w.id = id
\* what the environment decides while one event is handled: whether
\* get_workspaces fails or shows the focus elsewhere already, whether the
\* command can be spawned, the key the HashMap yields first
EmOracles ==
    [view : {"current", "failed", "stale"}, spawnFails : BOOLEAN, pick : EmptyKeys]
EmMachine(o) ==
    [err |-> NoErr, spawned |-> << >>, spawnFails |-> o.spawnFails,
     last_workspace |-> em_plugin.last_workspace,
     workspace_empty |-> em_plugin.workspace_empty]
EmCommit(id, focused, o, s) ==
    /\ em_plugin' = [last_workspace |-> s.last_workspace, workspace_empty |-> s.workspace_empty]
    /\ em_last' = [op |-> "activated", id |-> id, focused |-> focused, view |-> o.view,
                   empty |-> id \notin em_comp'.busy, err |-> s.err, spawned |-> s.spawned]

\* Event::WorkspaceActivated { id, focused }: the workspace becomes the active
\* one of its output, and the focused one if the output has the focus
EmWorkspaceActivated(id, focused, o) ==
    /\ events < MaxEvents
    /\ events' = events + 1
    /\ em_comp' = IF focused THEN [em_comp EXCEPT !.focused = id] ELSE em_comp
    /\ EmCommit(id, focused, o,
                IF focused /\ o.view = "current"
                THEN workspace_activated(EmMachine(o), WorkspaceById(id),
                                         id \notin em_comp.busy, em_config, o.pick)
                ELSE EmMachine(o))
    /\ UNCHANGED << em_config, spVars, swVars, emOthers, requests, failures >>
\* a window is opened on a workspace, or the last one of it is closed: the
\* events that tell so are no concern of the plugin
EmWindowEvent(id) ==
    /\ events < MaxEvents
    /\ events' = events + 1
    /\ em_comp' = [em_comp EXCEPT !.busy = IF id \in @ THEN @ \ {id} ELSE @ \cup {id}]
    /\ em_last' = [op |-> "other"]
    /\ UNCHANGED << em_config, em_plugin, spVars, swVars, emOthers, requests, failures >>

NextEmpty ==
    \/ \E w \in Workspaces, focused \in BOOLEAN, o \in EmOracles :
           EmWorkspaceActivated(w.id, focused, o)
    \/ \E w \in Workspaces : EmWindowEvent(w.id)

SpecEmpty == InitEmpty /\ [][NextEmpty]_vars

(***************************************************************************)
(* The window order plugin serving reorder requests.                       *)
(***************************************************************************)
\* windows of a layout
MaxWoWin == 3
WoIds == 1..MaxWoWin
\* the app_ids of the tiled windows: two with a configured weight, one without
WoApps == {S_term, S_editor, S_misc}
\* a window is tiled in a column of the focused workspace, or floats there
\* without a column, or is tiled on another workspace; the app_id of a window
\* that is not one of the pass is never read
WoKinds(n) ==
    [app_id : WoApps, col : 1..n, floating : {FALSE}, here : {TRUE}]
    \cup {[app_id |-> NoStr, col |-> 0, floating |-> TRUE, here |-> TRUE],
          [app_id |-> NoStr, col |-> 1, floating |-> FALSE, here |-> FALSE]}
\* the tiled windows of the focused workspace fill the columns 1..k, one
\* window or several to a column
WoValid(wins) ==
    LET tiled == {i \in DOMAIN wins : wins[i].here /\ ~wins[i].floating} IN
    {wins[i].col : i \in tiled} = 1..Cardinality({wins[i].col : i \in tiled})
WoWindow(w, id) ==
    [id |-> id, app_id |-> w.app_id, col |-> w.col, floating |-> w.floating, here |-> w.here]
WoLayouts ==
    UNION {{[i \in 1..n |-> WoWindow(wins[i], i)] :
               wins \in {v \in [1..n -> WoKinds(n)] : WoValid(v)}} : n \in 0..MaxWoWin}
\* any layout, with any window of it focused or none
WoInputs ==
    /\ wo_windows \in WoLayouts
    /\ wo_focus \in {NoWin} \cup DOMAIN wo_windows
    /\ wo_last = NoLast
InitWindowOrder ==
    CoreInit /\ SgIdle /\ WrIdle /\ EmIdle /\ WoInputs /\ PmIdle /\ DmIdle /\ EvIdle /\ MgIdle
    /\ MlIdle /\ EpIdle /\ SrIdle

\* requests of one pass among which one may fail
MaxWoFail == 8
\* what the environment decides during one pass: the request that fails, or
\* that the window focused before the pass is gone at its end, so that the
\* compositor rejects the FocusWindow that restores the focus; and the order
\* in which the HashMap yields the windows
WoIterations(wins) ==
    LET ids == {wins[i].id : i \in {j \in DOMAIN wins : wins[j].here /\ ~wins[j].floating}}
    IN {q \in [1..Cardinality(ids) -> ids] : \A i, j \in DOMAIN q : q[i] = q[j] => i = j}
WoOracles ==
    {[failAt |-> f, gone |-> FALSE, iter |-> it] :
        f \in NoFailure..MaxWoFail, it \in WoIterations(wo_windows)}
    \cup {[failAt |-> NoFailure, gone |-> TRUE, iter |-> it] : it \in WoIterations(wo_windows)}
WoMachine(o) ==
    [step |-> 0, failAt |-> o.failAt, gone |-> o.gone, failed |-> FALSE, err |-> NoErr,
     path |-> << >>, acts |-> << >>, plan |-> NoPlan, focused |-> NoWin,
     windows |-> wo_windows, focus |-> wo_focus]
\* reorder passes of one run
MaxWoPasses == 1

\* IpcRequest::WindowOrderToggle
IpcWindowOrderToggle(o) ==
    /\ requests < MaxWoPasses
    /\ requests' = requests + 1
    /\ LET s == reorder_windows(WoMachine(o), o.iter) IN
       /\ wo_windows' = s.windows
       /\ wo_focus' = s.focus
       /\ wo_last' = [op |-> "toggle", err |-> s.err, path |-> s.path, acts |-> s.acts,
                      plan |-> s.plan, focused |-> s.focused, iter |-> o.iter,
                      failed |-> (s.failAt # NoFailure /\ s.failAt <= s.step),
                      gone |-> s.gone,
                      pre |-> [windows |-> wo_windows, focus |-> wo_focus]]
    /\ UNCHANGED << spVars, swVars, woOthers, events, failures >>
NextWindowOrder ==
    \E o \in WoOracles : IpcWindowOrderToggle(o)

SpecWindowOrder == InitWindowOrder /\ [][NextWindowOrder]_vars

(***************************************************************************)
(* The plugin manager across the start of the daemon and its reloads.      *)
(***************************************************************************)
\* calls of PluginManager::init in one run: the start and the reloads
MaxPmInits == 3
\* requests the plugins serve in one run
MaxPmUses == 2
\* what a configuration file may say: for each plugin whether [piri.plugins]
\* enables it and whether its own section yields a plugin config (a file
\* without either says no more than a file that only has the section)
PmFiles ==
    {f \in [plugins : [PluginNames -> BOOLEAN], sections : [PluginNames -> BOOLEAN]] :
        \A n \in PluginNames : f.plugins[n] \/ f.sections[n]}

\* Daemon start, and IpcRequest::Reload with a file that is read and parsed:
\* the handler takes the new config and the manager is initialised with it
PmInit(file) ==
    /\ requests < MaxPmInits
    /\ requests' = requests + 1
    /\ LET config == [version |-> pm_config.version + 1, plugins |-> file.plugins,
                      sections |-> file.sections]
           m == manager_init([plugins |-> pm_plugins, created |-> pm_created], config, 1)
       IN /\ pm_config' = config
          /\ pm_plugins' = m.plugins
          /\ pm_created' = m.created
          /\ pm_last' = [op |-> "init", pre |-> [plugins |-> pm_plugins, created |-> pm_created]]
    /\ UNCHANGED << spVars, swVars, pmOthers, events, failures >>
\* a plugin of the list serves a request or an event and its runtime state
\* changes
PmUse(i) ==
    /\ events < MaxPmUses
    /\ events' = events + 1
    /\ i \in 1..Len(pm_plugins)
    /\ pm_plugins' = [pm_plugins EXCEPT ![i] = get_regex([@ EXCEPT !.state = @ + 1])]
    /\ pm_last' = [op |-> "use", name |-> pm_plugins[i].name]
    /\ UNCHANGED << pm_created, pm_config, spVars, swVars, pmOthers, requests, failures >>

NextManager ==
    \/ \E file \in PmFiles : PmInit(file)
    \/ \E i \in 1..MaxPmPlugins : PmUse(i)

SpecManager == Init /\ [][NextManager]_vars

(***************************************************************************)
(* The daemon serving reloads between scratchpad and singleton requests.   *)
(***************************************************************************)
\* the files a reload may find: the scratchpads and the singleton plugin are
\* each enabled or not, every section is filled
RlFiles ==
    {f \in PmFiles : /\ \A n \in PluginNames : f.sections[n]
                     /\ \A n \in PluginNames \ {"scratchpads", "singleton"} : ~f.plugins[n]}
RlSources ==
    {[status |-> "ok", file |-> f] : f \in RlFiles}
    \cup {[status |-> s, file |-> DefaultFile] : s \in {"missing", "unreadable", "unparsable"}}
\* the handler of the daemon
RlHandler ==
    [config |-> pm_config, plugins |-> pm_plugins, created |-> pm_created,
     response |-> "none", err |-> NoErr]
\* the runtime state of the plugin `name` after the reload that made h: the
\* plugin that is still the same instance had update_config called, a new
\* instance starts with a new manager
RuntimeAfter(h, name, cur, updated, fresh) ==
    IF h.err # NoErr THEN cur
    ELSE IF /\ instance_of(h.plugins, name) # 0
            /\ instance_of(h.plugins, name) = instance_of(pm_plugins, name)
         THEN updated
         ELSE fresh
ScratchpadsRuntime ==
    [scratchpads |-> scratchpads, visibility |-> visibility,
     original_workspaces |-> original_workspaces,
     previous_focused_windows |-> previous_focused_windows,
     dynamic_configs |-> dynamic_configs]
SingletonRuntime == [singletons |-> singletons]
\* a run has the daemon start and at most MaxReloads - 1 reloads, among at
\* most MaxRlRequests other requests and MaxRlEvents windows that open
MaxReloads == 2
MaxRlRequests == 2
MaxRlEvents == 1
ReloadsSoFar == IF pm_last.op = "reload" THEN pm_last.reloads ELSE 0

\* daemon start, and `piri reload`
IpcReload(source) ==
    /\ pc = "idle"
    /\ pc' = "responded"
    /\ ReloadsSoFar < MaxReloads
    /\ LET h == handle_reload(RlHandler, source)
           sp == RuntimeAfter(h, "scratchpads", ScratchpadsRuntime,
                              ScratchpadsPlugin_update_config(ScratchpadsRuntime, h.config),
                              ScratchpadsPlugin_init(ScratchpadsRuntime, h.config))
           sg == RuntimeAfter(h, "singleton", SingletonRuntime,
                              SingletonPlugin_update_config(SingletonRuntime, h.config),
                              SingletonPlugin_init(SingletonRuntime, h.config))
       IN /\ pm_config' = h.config
          /\ pm_plugins' = h.plugins
          /\ pm_created' = h.created
          /\ scratchpads' = sp.scratchpads
          /\ visibility' = sp.visibility
          /\ original_workspaces' = sp.original_workspaces
          /\ previous_focused_windows' = sp.previous_focused_windows
          /\ dynamic_configs' = sp.dynamic_configs
          /\ singletons' = sg.singletons
          /\ last' = [op |-> "reload", err |-> h.err, response |-> h.response]
          /\ pm_last' = [op |-> "reload", status |-> source.status, err |-> h.err,
                         response |-> h.response, reloads |-> ReloadsSoFar + 1,
                         pre |-> [config |-> pm_config, plugins |-> pm_plugins,
                                  created |-> pm_created, scratchpads |-> ScratchpadsRuntime,
                                  singleton |-> SingletonRuntime]]
    /\ UNCHANGED << windows, focused_window, focused_ws, opened, hist, swVars, sg_last,
                    wrVars, emVars, woVars, dmVars, evVars, mgVars, mlVars, epVars, srVars,
                    requests, events, failures >>
\* a scratchpad request, which the scratchpads plugin of the manager takes
RlToggle(name, o) ==
    /\ requests < MaxRlRequests
    /\ instance_of(pm_plugins, "scratchpads") # 0
    /\ o.failAt = NoFailure
    /\ IpcToggle(name, o)
RlAdd(name, direction, o) ==
    /\ requests < MaxRlRequests
    /\ instance_of(pm_plugins, "scratchpads") # 0
    /\ o.failAt = NoFailure
    /\ IpcAdd(name, direction, o)
\* a singleton request, which the singleton plugin of the manager takes
RlSingletonToggle(name, o) ==
    /\ requests < MaxRlRequests
    /\ instance_of(pm_plugins, "singleton") # 0
    /\ o.failAt = NoFailure
    /\ IpcSingletonToggle(name, o)
\* a request for a plugin the manager does not hold is answered with Error
RlRefuse(plugin) ==
    /\ pc = "idle"
    /\ pc' = "responded"
    /\ requests < MaxRlRequests
    /\ requests' = requests + 1
    /\ instance_of(pm_plugins, plugin) = 0
    /\ last' = [op |-> "refused", name |-> plugin, err |-> "plugin is not enabled",
                response |-> "Error"]
    /\ UNCHANGED << scratchpads, visibility, original_workspaces, previous_focused_windows,
                    dynamic_configs, windows, focused_window, focused_ws, opened, hist,
                    swVars, plVars, events, failures >>
\* some program maps a window
RlOpenWindow(id) == events < MaxRlEvents /\ OpenWindow(id)
\* the response is written
RlRespond == last # NoLast /\ Respond
RlSingletonRespond == sg_last # NoLast /\ SgRespond

NextReload ==
    \/ \E source \in RlSources : IpcReload(source)
    \/ \E name \in Names, o \in Oracles : RlToggle(name, o)
    \/ \E name \in AddNames, d \in AddDirections, o \in Oracles : RlAdd(name, d, o)
    \/ \E name \in SingletonNames, o \in SgOracles : RlSingletonToggle(name, o)
    \/ \E plugin \in {"scratchpads", "singleton"} : RlRefuse(plugin)
    \/ RlRespond
    \/ RlSingletonRespond
    \/ \E id \in WinIds : RlOpenWindow(id)

SpecReload == Init /\ [][NextReload]_vars

(***************************************************************************)
(* run_daemon_loop and the tasks it spawns.                                *)
(***************************************************************************)
\* signals and accept errors of a run
MaxDmSignals == 1
\* a client connects to the socket and sends a request
DmConnect(c, kind) ==
    /\ dm_socket
    /\ dm_conns[c].pc = "none"
    /\ \A b \in 1..(c - 1) : dm_conns[b].pc # "none"
    /\ dm_conns' = [dm_conns EXCEPT ![c] = [pc |-> "pending", kind |-> kind, step |-> 0]]
    /\ UNCHANGED << dm_main, dm_lock, dm_notify, dm_calls, dm_socket, spVars, swVars,
                    dmOthers, requests, events, failures >>
\* select!: `ipc_server.accept()` is ready with the oldest connection
DmAccept(c) ==
    /\ dm_main.pc = "select"
    /\ dm_conns[c].pc = "pending"
    /\ \A b \in 1..(c - 1) : dm_conns[b].pc # "pending"
    /\ dm_main' = [dm_main EXCEPT !.pc = "accepted", !.conn = c]
    /\ UNCHANGED << dm_conns, dm_lock, dm_notify, dm_calls, dm_socket, spVars, swVars,
                    dmOthers, requests, events, failures >>
\* the accept arm: `tokio::spawn(handle_request(stream, handler, shutdown))`
DmSpawn ==
    /\ dm_main.pc = "accepted"
    /\ dm_conns' = [dm_conns EXCEPT ![dm_main.conn].pc = "reading"]
    /\ dm_main' = [dm_main EXCEPT !.pc = "select", !.conn = NoConn]
    /\ UNCHANGED << dm_lock, dm_notify, dm_calls, dm_socket, spVars, swVars, dmOthers,
                    requests, events, failures >>
\* select!: accept is ready with an error, which is logged
DmAcceptError ==
    /\ dm_main.pc = "select"
    /\ failures < MaxDmSignals
    /\ failures' = failures + 1
    /\ UNCHANGED << dmVars, spVars, swVars, dmOthers, requests, events >>
\* select!: SIGTERM or SIGINT
DmSignal ==
    /\ dm_main.pc = "select"
    /\ events < MaxDmSignals
    /\ events' = events + 1
    /\ dm_main' = [dm_main EXCEPT !.pc = "stopped", !.exit = "signal"]
    /\ UNCHANGED << dm_conns, dm_lock, dm_notify, dm_calls, dm_socket, spVars, swVars,
                    dmOthers, requests, failures >>
\* select!: `shutdown.notified()` completes and takes the permit
DmNotified ==
    /\ dm_main.pc = "select"
    /\ dm_notify.permit
    /\ dm_notify' = [dm_notify EXCEPT !.permit = FALSE]
    /\ dm_main' = [dm_main EXCEPT !.pc = "stopped", !.exit = "shutdown"]
    /\ UNCHANGED << dm_conns, dm_lock, dm_calls, dm_socket, spVars, swVars, dmOthers,
                    requests, events, failures >>
\* after the loop: `ipc_server.cleanup()` removes the socket file; the
\* function returns and the runtime drops the tasks
DmCleanup ==
    /\ dm_main.pc = "stopped"
    /\ dm_main' = [dm_main EXCEPT !.pc = "returned"]
    /\ dm_socket' = FALSE
    /\ UNCHANGED << dm_conns, dm_lock, dm_notify, dm_calls, spVars, swVars, dmOthers,
                    requests, events, failures >>
\* handle_request reads the request: what does not deserialize is answered
\* with an error at once
DmRead(c) ==
    /\ dm_main.pc # "returned"
    /\ dm_conns[c].pc = "reading"
    /\ dm_conns' = [dm_conns EXCEPT ![c].pc = IF dm_conns[c].kind = "Invalid"
                                              THEN "done" ELSE "waiting"]
    /\ UNCHANGED << dm_main, dm_lock, dm_notify, dm_calls, dm_socket, spVars, swVars,
                    dmOthers, requests, events, failures >>
\* `handler.lock().await`
DmLock(c) ==
    /\ dm_main.pc # "returned"
    /\ dm_conns[c].pc = "waiting"
    /\ Mutex_lock(dm_lock, c).acquired
    /\ dm_lock' = Mutex_lock(dm_lock, c).lock
    /\ dm_conns' = [dm_conns EXCEPT ![c].pc = "holding"]
    /\ UNCHANGED << dm_main, dm_notify, dm_calls, dm_socket, spVars, swVars, dmOthers,
                    requests, events, failures >>
\* the next call made for the request under the lock; after the last one
\* the guard is dropped and the response is ready
DmCall(c) ==
    /\ dm_main.pc # "returned"
    /\ dm_conns[c].pc = "holding"
    /\ LET steps == StepsOf(dm_conns[c].kind)
           i == dm_conns[c].step + 1
       IN /\ dm_calls' = Append(dm_calls, c)
          /\ dm_notify' = IF steps[i] = "notify_one" THEN notify_one(dm_notify, dm_main.pc)
                          ELSE dm_notify
          /\ dm_conns' = [dm_conns EXCEPT ![c].step = i,
                                          ![c].pc = IF i = Len(steps) THEN "writing"
                                                    ELSE "holding"]
          /\ dm_lock' = IF i = Len(steps) THEN NoConn ELSE dm_lock
    /\ UNCHANGED << dm_main, dm_socket, spVars, swVars, dmOthers, requests, events,
                    failures >>
\* the response is written to the stream
DmWrite(c) ==
    /\ dm_main.pc # "returned"
    /\ dm_conns[c].pc = "writing"
    /\ dm_conns' = [dm_conns EXCEPT ![c].pc = "done"]
    /\ UNCHANGED << dm_main, dm_lock, dm_notify, dm_calls, dm_socket, spVars, swVars,
                    dmOthers, requests, events, failures >>

NextDaemon ==
    \/ \E c \in ConnIds, kind \in RequestKinds : DmConnect(c, kind)
    \/ \E c \in ConnIds : DmAccept(c)
    \/ DmSpawn
    \/ DmAcceptError
    \/ DmSignal
    \/ DmNotified
    \/ DmCleanup
    \/ \E c \in ConnIds : DmRead(c)
    \/ \E c \in ConnIds : DmLock(c)
    \/ \E c \in ConnIds : DmCall(c)
    \/ \E c \in ConnIds : DmWrite(c)

SpecDaemon == Init /\ [][NextDaemon]_vars

\* the runtime runs the main task whenever it can make a step, and every
\* task of a connection until the main task returns
DmFairness ==
    /\ WF_vars(\E c \in ConnIds : DmAccept(c))
    /\ WF_vars(DmSpawn)
    /\ WF_vars(DmNotified)
    /\ WF_vars(DmCleanup)
    /\ \A c \in ConnIds : WF_vars(DmRead(c) \/ DmLock(c) \/ DmCall(c) \/ DmWrite(c))
SpecDaemonFair == Init /\ [][NextDaemon]_vars /\ DmFairness

(***************************************************************************)
(* Events of the compositor on their way to the plugins.                   *)
(***************************************************************************)
\* the manager holds its plugins in one of the orders
EvInputs ==
    /\ ev_plugins \in {EvLists[i] : i \in 1..Len(EvLists)}
    /\ ev_pending = << >>
    /\ ev_dist = NoDist
    /\ ev_delivered = {}
    /\ ev_errors = {}
InitEvents ==
    CoreInit /\ SgIdle /\ WrIdle /\ EmIdle /\ WoIdle /\ PmIdle /\ DmIdle /\ EvInputs /\ MgIdle
    /\ MlIdle /\ EpIdle /\ SrIdle

\* events of a run, and handle_event calls that return Err
MaxEvEvents == 3
MaxEvErrors == 2
\* the event listener reads an event and sends it to the channel
EvEmit(kind) ==
    /\ events < MaxEvEvents
    /\ events' = events + 1
    /\ ev_pending' = Append(ev_pending, kind)
    /\ UNCHANGED << ev_plugins, ev_dist, ev_delivered, ev_errors, spVars, swVars, evOthers,
                    requests, failures >>
\* the event is taken from the channel and distribute_event is called
EvTake ==
    /\ ev_dist.kind = "none"
    /\ ev_pending # << >>
    /\ ev_pending' = Tail(ev_pending)
    /\ ev_dist' = [seq |-> ev_dist.seq + 1, kind |-> Head(ev_pending), i |-> 1,
                   busy |-> "none", will |-> "none",
                   taken |-> Append(ev_dist.taken, Head(ev_pending))]
    /\ UNCHANGED << ev_plugins, ev_delivered, ev_errors, spVars, swVars, evOthers,
                    requests, events, failures >>
\* distribute_event at the next plugin of the list: an interested plugin has
\* handle_event called, which will return Ok or Err or never return
EvOffer(will) ==
    /\ ev_dist.kind # "none" /\ ev_dist.busy = "none"
    /\ ev_dist.i <= Len(ev_plugins)
    /\ will = "err" => Cardinality(ev_errors) < MaxEvErrors
    /\ IF is_interested_in_event(ev_plugins[ev_dist.i], ev_dist.kind)
       THEN /\ ev_dist' = [ev_dist EXCEPT !.busy = ev_plugins[ev_dist.i], !.will = will]
            /\ ev_delivered' = ev_delivered \cup {<< ev_dist.seq, ev_plugins[ev_dist.i] >>}
       ELSE /\ will = "ok"
            /\ ev_dist' = [ev_dist EXCEPT !.i = @ + 1]
            /\ UNCHANGED ev_delivered
    /\ UNCHANGED << ev_plugins, ev_pending, ev_errors, spVars, swVars, evOthers, requests,
                    events, failures >>
\* handle_event returns
EvReturn ==
    /\ ev_dist.busy # "none"
    /\ ev_dist.will \in {"ok", "err"}
    /\ ev_dist' = after_handle_event(ev_dist, ev_plugins, ev_dist.will)
    /\ ev_errors' = IF ev_dist.will = "err"
                    THEN ev_errors \cup {<< ev_dist.seq, ev_dist.busy >>} ELSE ev_errors
    /\ UNCHANGED << ev_plugins, ev_pending, ev_delivered, spVars, swVars, evOthers,
                    requests, events, failures >>
\* the loop over the plugins has ended and distribute_event returns
EvDone ==
    /\ ev_dist.kind # "none" /\ ev_dist.busy = "none"
    /\ ev_dist.i > Len(ev_plugins)
    /\ ev_dist' = [ev_dist EXCEPT !.kind = "none", !.i = 0]
    /\ UNCHANGED << ev_plugins, ev_pending, ev_delivered, ev_errors, spVars, swVars,
                    evOthers, requests, events, failures >>

NextEvents ==
    \/ \E kind \in EventKinds : EvEmit(kind)
    \/ EvTake
    \/ \E will \in {"ok", "err", "never"} : EvOffer(will)
    \/ EvReturn
    \/ EvDone

SpecEvents == InitEvents /\ [][NextEvents]_vars

\* the runtime runs the task that distributes the events whenever it can
\* proceed, and a handle_event that returns does so
EvFairness ==
    /\ WF_vars(EvTake)
    /\ WF_vars(\E will \in {"ok", "err", "never"} : EvOffer(will))
    /\ WF_vars(EvReturn)
    /\ WF_vars(EvDone)
SpecEventsFair == InitEvents /\ [][NextEvents]_vars /\ EvFairness

(***************************************************************************)
(* A margin turned into a position and read back from it.                  *)
(***************************************************************************)
\* sizes of outputs and windows, and margins, as u32: small ones, those of
\* the output, and the ends of the ranges of i32 and u32
MgOutputs == {1080, Output.width, MaxU32Word}
MgWindows == {0, 800, Output.width, 3000}
MgMargins == {0, 10, 2000, MaxI32, HalfU32Word, MaxU32Word}
MgInputs ==
    /\ mg_in \in [direction : Directions, output_width : MgOutputs, output_height : MgOutputs,
                  window_width : MgWindows, window_height : MgWindows, margin : MgMargins,
                  overflow_checks : BOOLEAN]
    /\ mg_pos = NoPos
    /\ mg_out = Panic
InitMargin ==
    CoreInit /\ SgIdle /\ WrIdle /\ EmIdle /\ WoIdle /\ PmIdle /\ DmIdle /\ EvIdle /\ MgInputs
    /\ MlIdle /\ EpIdle /\ SrIdle

\* the position is computed from the margin
MgCalculate ==
    /\ requests = 0
    /\ requests' = 1
    /\ mg_pos' = window_utils_calculate_position(mg_in)
    /\ UNCHANGED << mg_in, mg_out, spVars, swVars, mgOthers, events, failures >>
\* the margin is read back from the position
MgExtract ==
    /\ requests = 1 /\ mg_pos.ok
    /\ requests' = 2
    /\ mg_out' = extract_margin(mg_in, mg_pos)
    /\ UNCHANGED << mg_in, mg_pos, spVars, swVars, mgOthers, events, failures >>

NextMargin == MgCalculate \/ MgExtract

SpecMargin == InitMargin /\ [][NextMargin]_vars

(***************************************************************************)
(* The move loop on windows that stand one to a column.                    *)
(***************************************************************************)
\* windows of the arrangements that are tried in every combination
MaxMlWin == 4
\* the weights of 22 windows in the columns 1..22
MlLongWeights ==
    << 18, 16, 11, 12, 10, 14, 0, 1, 9, 3, 5, 8, 7, 4, 17, 19, 13, 20, 15, 6, 21, 2 >>
MlOrders(n) == {q \in [1..n -> 1..n] : \A i, j \in 1..n : q[i] = q[j] => i = j}
\* window i stands in column i; every assignment of the weights, every order
\* of the HashMap, any window focused or none
MlArrangements ==
    UNION {[weights : [1..n -> 0..(n - 1)], iter : MlOrders(n), focused : {NoWin} \cup 1..n] :
              n \in 1..MaxMlWin}
    \cup {[weights |-> MlLongWeights, iter |-> [i \in 1..Len(MlLongWeights) |-> i],
           focused |-> f] : f \in {NoWin, 1}}
MlInputs ==
    /\ ml_in \in MlArrangements
    /\ ml_out = NoPlan
InitMoveLoop ==
    CoreInit /\ SgIdle /\ WrIdle /\ EmIdle /\ WoIdle /\ PmIdle /\ DmIdle /\ EvIdle /\ MgIdle
    /\ MlInputs /\ EpIdle /\ SrIdle
\* (id, order, current_col) of the windows
MlWindows ==
    [i \in 1..Len(ml_in.weights) |-> [id |-> i, order |-> ml_in.weights[i], current_col |-> i]]
MlCurrent == [i \in 1..Len(ml_in.weights) |-> i]
MlTarget == target_state_of(sort_by(MlWindows))
\* the part of reorder_windows from the target permutation to the end of the
\* move loop
MlPlanMoves ==
    /\ requests = 0
    /\ requests' = 1
    /\ ml_out' = IF ~needs_move(MlCurrent, MlTarget)
                 THEN [Plan(MlCurrent, MlTarget) EXCEPT !.stop = "already_correct"]
                 ELSE move_loop(Plan(MlCurrent, MlTarget), ml_in.iter, ml_in.focused)
    /\ UNCHANGED << ml_in, spVars, swVars, mlOthers, events, failures >>
NextMoveLoop == MlPlanMoves
SpecMoveLoop == InitMoveLoop /\ [][NextMoveLoop]_vars

(***************************************************************************)
(* The rules of the swallow plugin tried on a new window.                  *)
(***************************************************************************)
\* windows the compositor may list while a rule is tried
MaxSrWin == 4
SrIds == 1..MaxSrWin
SrWindow(id) == [id |-> id, app_id |-> AppIdOf(id), title |-> TitleOf(id)]
\* what a key of the rule may be in the file
SrKeys == {AbsentKey, ListKey(<< >>), StringKey(S_foot), ListKey(<< S_v_m, S_untitled >>)}
SrQueues ==
    UNION {{q \in [1..n -> SrIds] : \A i, j \in 1..n : q[i] = q[j] => i = j} : n \in 0..MaxSrWin}
\* a rule and a new window; or a rule, the new window, the windows alive, the
\* focused one of them if any, and the focus queue
SrCases ==
    [kind : {"child"}, child_app_id : SrKeys, child_title : SrKeys, child : SrIds]
    \cup UNION {[kind : {"parent"}, parent_app_id : SrKeys, parent_title : SrKeys,
                 child : {child}, alive : {a \cup {child} : a \in SUBSET (SrIds \ {child})},
                 focused : {NoWin} \cup SrIds, queue : SrQueues] : child \in {2, 3}}
SrInputs ==
    /\ sr_in \in {c \in SrCases : c.kind = "parent" => c.focused \in {NoWin} \cup c.alive}
    /\ sr_out = [kind |-> "none"]
InitSwallowRule ==
    CoreInit /\ SgIdle /\ WrIdle /\ EmIdle /\ WoIdle /\ PmIdle /\ DmIdle /\ EvIdle /\ MgIdle
    /\ MlIdle /\ EpIdle /\ SrInputs
\* the rule of the file as the plugin holds it
SrChildRule ==
    [child_app_id |-> deserialize_string_or_vec(sr_in.child_app_id),
     child_title |-> deserialize_string_or_vec(sr_in.child_title)]
SrParentRule ==
    [parent_app_id |-> deserialize_string_or_vec(sr_in.parent_app_id),
     parent_title |-> deserialize_string_or_vec(sr_in.parent_title)]
\* handle_window_opened tries the rule on the new window
SrCheckChild ==
    /\ sr_in.kind = "child" /\ sr_out.kind = "none"
    /\ sr_out' = [kind |-> "child",
                  accepted |-> check_child_window_matches_rule(SrWindow(sr_in.child),
                                                               SrChildRule)]
    /\ UNCHANGED << sr_in, spVars, swVars, srOthers, requests, events, failures >>
\* and looks for the parent
SrCheckParent ==
    /\ sr_in.kind = "parent" /\ sr_out.kind = "none"
    /\ sr_out' = [kind |-> "parent",
                  parent |-> check_focused_window_matches_parent_rule(
                                 SrParentRule, sr_in.child, sr_in.focused, sr_in.queue,
                                 [id \in sr_in.alive |-> SrWindow(id)])]
    /\ UNCHANGED << sr_in, spVars, swVars, srOthers, requests, events, failures >>
NextSwallowRule == SrCheckChild \/ SrCheckParent
SpecSwallowRule == InitSwallowRule /\ [][NextSwallowRule]_vars

(***************************************************************************)
(* The hiding of a scratchpad that is shown when the daemon is asked.      *)
(***************************************************************************)
\* windows of the compositor's list
MaxHdWin == 5
\* requests of the toggle among which one may fail
MaxHdFail == 12
MaxHdRequests == 1
\* the windows 1..n in the order of the list, each on one of the workspaces;
\* window s is the shown scratchpad: floating, on the output
HdShown(w) == [w EXCEPT !.floating = TRUE, !.x = 640, !.y = 10]
HdWindows(n, s, where) ==
    [i \in 1..n |-> IF i = s THEN HdShown(NewWindow(i, where[i])) ELSE NewWindow(i, where[i])]
\* the slot "term" is bound to a window and visible; the window that was
\* focused when it was shown is one of the list, or has been closed since
\* (id n + 1), or there was none (NoWin)
HdInputs ==
    \E n \in 1..MaxHdWin : \E s \in 1..n : \E where \in [1..n -> WsIdx] :
        /\ windows = HdWindows(n, s, where)
        /\ scratchpads = [k \in Names |-> IF k = "term" THEN s ELSE NoWin]
        /\ visibility = [k \in Names |-> IF k = "term" THEN "true" ELSE Absent]
        /\ original_workspaces = [k \in Names |-> IF k = "term" THEN << "1" >> ELSE NoStr]
        /\ previous_focused_windows \in
               {[k \in Names |-> IF k = "term" THEN p ELSE NoEntry] :
                    p \in {NoWin} \cup ((1..(n + 1)) \ {s})}
        /\ focused_ws \in WsIdx
        /\ focused_window = IF where[s] = focused_ws THEN s ELSE FirstOn(windows, focused_ws)
        /\ opened = 1..(n + 1)
InitHide ==
    /\ HdInputs
    /\ dynamic_configs = [n \in Names |-> NoConfig]
    /\ pc = "idle" /\ last = NoLast /\ hist = NoHist
    /\ window_pid_map = [p \in Pids |-> << >>]
    /\ focused_window_queue = << >>
    /\ sw_windows = [id \in SwIds |-> "new"]
    /\ scanned = FALSE /\ scan_list = NoList /\ sw_pending = << >> /\ sw_last = NoLast
    /\ requests = 0 /\ events = 0 /\ failures = 0
    /\ SgIdle /\ WrIdle /\ EmIdle /\ WoIdle /\ PmIdle /\ DmIdle /\ EvIdle /\ MgIdle
    /\ MlIdle /\ EpIdle /\ SrIdle
HdOracles ==
    {[failAt |-> f, arrive |-> NoArrival, spawnFails |-> FALSE] : f \in NoFailure..MaxHdFail}
\* piri scratchpads term toggle
HdToggle(o) ==
    /\ requests < MaxHdRequests
    /\ IpcToggle("term", o)
\* the same request served by CommandHandler
HdCommandToggle(o) ==
    /\ pc = "idle"
    /\ requests < MaxHdRequests
    /\ o.failAt # NoFailure => failures < MaxFailures
    /\ Commit("toggle", "term", Absent,
              CommandHandler_handle_scratchpad_toggle(Machine(o), "term"))
HdRespond == last # NoLast /\ Respond
NextHide ==
    \/ \E o \in HdOracles : HdToggle(o)
    \/ \E o \in HdOracles : HdCommandToggle(o)
    \/ HdRespond
SpecHide == InitHide /\ [][NextHide]_vars

(***************************************************************************)
(* The event pump: PluginManager::event_listener_loop, the task that reads *)
(* the compositor's event stream and publishes on the event channel.       *)
(* ep_stream is what read_event() will yield on the open connection, an    *)
(* event being (id, conn): the id-th event delivered, on the conn-th       *)
(* connection accepted.  `requests` counts the connections accepted,       *)
(* `events` the events delivered, `failures` the connections refused and   *)
(* the streams ended.                                                      *)
(***************************************************************************)
MaxEpEvents == 3
MaxEpConns == 3
MaxEpFail == 3
\* read_event() returning Err: end of stream or a read error
EpErr == [id |-> 0, conn |-> 0]
InitPump ==
    CoreInit /\ SgIdle /\ WrIdle /\ EmIdle /\ WoIdle /\ PmIdle /\ DmIdle /\ EvIdle /\ MgIdle
    /\ MlIdle /\ SrIdle
    /\ ep_pc = "connecting"
    /\ ep_first = TRUE
    /\ ep_stream = << >>
    /\ ep_accepted = << >>
    /\ ep_channel = << >>
    /\ ep_open = TRUE
    /\ ep_notified = 0
EpUnchanged == UNCHANGED << spVars, swVars, epOthers >>
\* create_event_stream_socket fails: warn, sleep
EpConnectFail ==
    /\ ep_pc = "connecting"
    /\ failures < MaxEpFail
    /\ ep_pc' = "sleeping"
    /\ failures' = failures + 1
    /\ UNCHANGED << ep_first, ep_stream, ep_accepted, ep_channel, ep_open, ep_notified,
                    requests, events >>
    /\ EpUnchanged
\* create_event_stream_socket succeeds; the first time, a notification
EpConnectOk ==
    /\ ep_pc = "connecting"
    /\ requests < MaxEpConns
    /\ ep_pc' = "reading"
    /\ requests' = requests + 1
    /\ ep_stream' = << >>
    /\ ep_notified' = IF ep_first THEN ep_notified + 1 ELSE ep_notified
    /\ ep_first' = FALSE
    /\ UNCHANGED << ep_accepted, ep_channel, ep_open, events, failures >>
    /\ EpUnchanged
EpStreamOpen ==
    /\ ep_pc = "reading"
    /\ IF ep_stream = << >> THEN TRUE ELSE ep_stream[Len(ep_stream)] # EpErr
\* the compositor delivers an event on the open connection
EpDeliver ==
    /\ EpStreamOpen
    /\ events < MaxEpEvents
    /\ events' = events + 1
    /\ ep_stream' = Append(ep_stream, [id |-> events + 1, conn |-> requests])
    /\ ep_accepted' = Append(ep_accepted, [id |-> events + 1, conn |-> requests])
    /\ UNCHANGED << ep_pc, ep_first, ep_channel, ep_open, ep_notified, requests, failures >>
    /\ EpUnchanged
\* the connection ends or breaks
EpStreamEnd ==
    /\ EpStreamOpen
    /\ requests < MaxEpConns
    /\ failures < MaxEpFail
    /\ failures' = failures + 1
    /\ ep_stream' = Append(ep_stream, EpErr)
    /\ UNCHANGED << ep_pc, ep_first, ep_accepted, ep_channel, ep_open, ep_notified,
                    requests, events >>
    /\ EpUnchanged
\* a pump that stops at the end of a stream
EpRead_gives_up ==
    /\ ep_pc = "reading"
    /\ ep_stream # << >>
    /\ IF Head(ep_stream) = EpErr
       THEN ep_pc' = "stopped" /\ ep_stream' = << >> /\ UNCHANGED ep_channel
       ELSE IF ep_open
       THEN /\ ep_channel' = Append(ep_channel, Head(ep_stream))
            /\ ep_stream' = Tail(ep_stream)
            /\ UNCHANGED ep_pc
       ELSE ep_pc' = "stopped" /\ UNCHANGED << ep_stream, ep_channel >>
    /\ UNCHANGED << ep_first, ep_accepted, ep_open, ep_notified, requests, events, failures >>
    /\ EpUnchanged
\* read_event() returns: an event is sent on the channel, and the pump returns
\* if the channel is closed; an Err leaves the inner loop for the sleep
EpRead ==
    /\ ep_pc = "reading"
    /\ ep_stream # << >>
    /\ IF Head(ep_stream) = EpErr
       THEN ep_pc' = "sleeping" /\ ep_stream' = << >> /\ UNCHANGED ep_channel
       ELSE IF ep_open
       THEN /\ ep_channel' = Append(ep_channel, Head(ep_stream))
            /\ ep_stream' = Tail(ep_stream)
            /\ UNCHANGED ep_pc
       ELSE ep_pc' = "stopped" /\ UNCHANGED << ep_stream, ep_channel >>
    /\ UNCHANGED << ep_first, ep_accepted, ep_open, ep_notified, requests, events, failures >>
    /\ EpUnchanged
\* the sleep of one second is over
EpWake ==
    /\ ep_pc = "sleeping"
    /\ ep_pc' = "connecting"
    /\ UNCHANGED << ep_first, ep_stream, ep_accepted, ep_channel, ep_open, ep_notified,
                    requests, events, failures >>
    /\ EpUnchanged
\* the receiver of the channel is dropped
EpClose ==
    /\ ep_open
    /\ ep_open' = FALSE
    /\ UNCHANGED << ep_pc, ep_first, ep_stream, ep_accepted, ep_channel, ep_notified,
                    requests, events, failures >>
    /\ EpUnchanged
NextPump ==
    \/ EpConnectFail
    \/ EpConnectOk
    \/ EpDeliver
    \/ EpStreamEnd
    \/ EpRead
    \/ EpWake
    \/ EpClose
SpecPump == InitPump /\ [][NextPump]_vars
\* the task is scheduled: a read that has returned is handled, a sleep ends,
\* and a connection attempt returns one way or the other
EpFairness ==
    /\ WF_vars(EpRead)
    /\ WF_vars(EpWake)
    /\ WF_vars(EpConnectFail \/ EpConnectOk)
SpecPumpFair == InitPump /\ [][NextPump]_vars /\ EpFairness

(***************************************************************************)
(* Inits and reloads of a manager whose plugins may refuse an update.      *)
(***************************************************************************)
\* at most one plugin refuses the update in one init
PmFailing == {{}} \cup {{n} : n \in PluginNames}
\* the files in which every plugin has its section and [piri.plugins] enables
\* it or not
PmSectionFiles == {f \in PmFiles : \A n \in PluginNames : f.sections[n]}
\* PluginManager::init with the new config
PmInitWith(file, failing) ==
    /\ requests < MaxPmInits
    /\ requests' = requests + 1
    /\ LET config == [version |-> pm_config.version + 1, plugins |-> file.plugins,
                      sections |-> file.sections]
           m == manager_init_with([plugins |-> pm_plugins, created |-> pm_created],
                                  config, failing, 1)
       IN /\ pm_config' = config
          /\ pm_plugins' = m.plugins
          /\ pm_created' = m.created
          /\ pm_last' = [op |-> "init", pre |-> [plugins |-> pm_plugins, created |-> pm_created],
                         failing |-> failing]
    /\ UNCHANGED << spVars, swVars, pmOthers, events, failures >>
NextManagerWith ==
    \/ \E file \in PmSectionFiles, failing \in PmFailing : PmInitWith(file, failing)
    \/ \E i \in 1..MaxPmPlugins : PmUse(i)
SpecManagerWith == Init /\ [][NextManagerWith]_vars

TypeOK ==
    /\ pc \in {"idle", "responded"}
    /\ focused_ws \in WsIdx
    /\ \A n \in Names : visibility[n] \in {"true", "false", Absent}

(***************************************************************************)
(* Properties of the scratchpad engine.                                    *)
(***************************************************************************)
\* `self.visibility.get(name).copied().unwrap_or(false)`
is_visible(vis, name) == vis[name] = "true"
\* the configuration a toggle of `name` runs with, given the dynamic configs
ConfigFor(dyn, name) ==
    IF get_scratchpad(name) # NoConfig THEN get_scratchpad(name) ELSE dyn[name]
Toggled == pc = "responded" /\ last.op = "toggle"
Added == pc = "responded" /\ last.op = "add"
\* the slot's window is on-screen: its rectangle meets the output's
SlotOnScreen(name) == OnScreen(windows, scratchpads[name])
\* the toggle found its window bound and did not have to move it
PlainToggle ==
    /\ Toggled /\ last.err = NoErr /\ ~last.failed
    /\ InPath(last.path, "bound") /\ ~InPath(last.path, "moved")

C2_SlotStates ==
    \A n \in Names :
        \/ scratchpads[n] = NoWin /\ visibility[n] = Absent
        \/ scratchpads[n] # NoWin /\ visibility[n] \in {"true", "false"}
C2_Witness ==
    /\ Toggled /\ last.failed /\ last.err # NoErr
    /\ InPath(last.path, "removed")
    /\ last.pre.scratchpads[last.name] # NoWin
    /\ scratchpads[last.name] = NoWin /\ visibility[last.name] = Absent

\* C3 (as stated): a toggle of a bound slot that returns Ok ends hidden if the
\* slot was visible with its window in the focused workspace; ends visible in
\* the focused workspace with previous_focused recorded anew if it was visible
\* in another workspace; ends visible with previous_focused = the window
\* focused when the toggle started if it was not visible.  The bound window
\* is in the window list when the toggle starts.
C3_AsStated ==
    (Toggled /\ last.err = NoErr /\ last.pre.scratchpads[last.name] # NoWin
       /\ HasWindow(last.pre.windows, last.pre.scratchpads[last.name]))
        => LET name == last.name
               id == last.pre.scratchpads[name]
               was_visible == is_visible(last.pre.visibility, name)
               was_here == /\ HasWindow(last.pre.windows, id)
                           /\ WinById(last.pre.windows, id).workspace_id
                                  = WsIdOf(last.pre.focused_ws)
           IN IF was_visible /\ was_here
              THEN visibility[name] = "false"
              ELSE IF was_visible
              THEN /\ visibility[name] = "true"
                   /\ HasWindow(windows, scratchpads[name])
                   /\ WinById(windows, scratchpads[name]).workspace_id = WsIdOf(focused_ws)
                   /\ previous_focused_windows[name] # NoEntry
              ELSE /\ visibility[name] = "true"
                   /\ previous_focused_windows[name] = last.pre.focused_window

C5_AsStated ==
    (Toggled /\ last.pre.scratchpads[last.name] # NoWin
       /\ HasWindow(last.pre.windows, last.pre.scratchpads[last.name])
       /\ ConfigFor(last.pre.dynamic_configs, last.name) # NoConfig
       /\ WindowMatches(WinById(ListWindows(last.pre.windows),
                                last.pre.scratchpads[last.name]),
                        ConfigFor(last.pre.dynamic_configs, last.name).app_id))
        => scratchpads[last.name] = last.pre.scratchpads[last.name]

\* C6 (as stated): a toggle of a dynamic slot whose window is gone fails at
\* once, removes the slot, and neither spawns, polls nor adopts.
C6_AsStated ==
    (Toggled /\ get_scratchpad(last.name) = NoConfig
       /\ last.pre.dynamic_configs[last.name] # NoConfig
       /\ last.pre.scratchpads[last.name] # NoWin
       /\ ~HasWindow(last.pre.windows, last.pre.scratchpads[last.name])
       /\ ~last.failed)
        => /\ last.err # NoErr
           /\ scratchpads[last.name] = NoWin
           /\ last.spawned = << >> /\ last.polls = 0
           /\ ~InPath(last.path, "adopted")

\* C7 (as stated): scratchpad-add with a focused window that has no app_id
\* fails, creates no slot and sends no action.
C7_AsStated ==
    (Added /\ last.dir \in Directions /\ ~last.failed
       /\ HasWindow(last.pre.windows, last.pre.focused_window)
       /\ WinById(last.pre.windows, last.pre.focused_window).app_id = NoStr)
        => /\ last.err # NoErr
           /\ scratchpads[last.name] = last.pre.scratchpads[last.name]
           /\ last.acts = << >>

\* C8: a toggle of an unbound configured slot with no matching window spawns
\* the command at most once and polls at most 50 times; unless a compositor
\* request or the spawn fails, it spawns exactly once, and then: if a matching
\* window appears it is adopted at that poll, set up and shown, else the
\* toggle fails with the timeout after the 50th poll and the slot stays unbound.
C8_Launch ==
    (Toggled /\ ConfigFor(last.pre.dynamic_configs, last.name) # NoConfig
       /\ last.pre.scratchpads[last.name] = NoWin
       /\ FirstMatch(ListWindows(last.pre.windows),
                     ConfigFor(last.pre.dynamic_configs, last.name).app_id, 1) = NoWin)
        => LET name == last.name
               config == ConfigFor(last.pre.dynamic_configs, name)
           IN /\ Len(last.spawned) <= 1
              /\ last.polls <= max_attempts
              /\ (~last.failed /\ last.err # "Failed to launch application") =>
                   /\ last.spawned = << config.command >>
                   /\ IF last.arrive.at # 0
                         /\ WindowMatches(ListWindows(<< NewWindow(last.arrive.id, 1) >>)[1],
                                          config.app_id)
                      THEN /\ last.err = NoErr
                           /\ last.polls = last.arrive.at
                           /\ scratchpads[name] = last.arrive.id
                           /\ visibility[name] = "true"
                           /\ SlotOnScreen(name)
                      ELSE /\ last.err = "Timeout waiting for window to appear"
                           /\ last.polls = max_attempts
                           /\ scratchpads[name] = NoWin
                           /\ visibility[name] = Absent
C8_Witness ==
    /\ Toggled /\ last.err = NoErr /\ ~last.failed
    /\ last.spawned = << S_foot >>
    /\ last.arrive.at = max_attempts /\ last.polls = max_attempts
    /\ scratchpads[last.name] = last.arrive.id
    /\ visibility[last.name] = "true"

\* C9: a request changes the slot of no name but the one it names (so a name
\* that no request has named has no slot and no action sent for it), and a
\* toggle of a name that is neither configured nor added returns an error,
\* sends no request to the compositor and changes no slot state.
C9_UnknownName ==
    pc = "responded"
        => LET Same(n) ==
                   /\ scratchpads[n] = last.pre.scratchpads[n]
                   /\ visibility[n] = last.pre.visibility[n]
                   /\ previous_focused_windows[n] = last.pre.previous_focused_windows[n]
                   /\ dynamic_configs[n] = last.pre.dynamic_configs[n]
           IN /\ \A n \in Names \ {last.name} : Same(n)
              /\ (last.op = "toggle"
                    /\ ConfigFor(last.pre.dynamic_configs, last.name) = NoConfig)
                   => /\ last.err = "Scratchpad not found"
                      /\ last.n = 0 /\ last.acts = << >> /\ last.spawned = << >>
                      /\ windows = last.pre.windows
                      /\ Same(last.name)
C9_Witness ==
    /\ Toggled /\ last.name = "ghost"
    /\ last.err = "Scratchpad not found"
    /\ Len(windows) > 0
    /\ \E n \in Names : scratchpads[n] # NoWin

(***************************************************************************)
(* Properties of the swallow plugin.                                       *)
(***************************************************************************)
NoDuplicates(q) == \A i, j \in 1..Len(q) : i # j => q[i] # q[j]

\* C10: after every sequence of window-opened, focus and window-closed
\* events the focus queue holds at most 5 ids and none twice; an event that
\* queues an id puts it at the back, and if the id was not in a full queue
\* the oldest entry is the one dropped.
C10_QueueStep ==
    sw_last'.outcome = "queued"
        => /\ focused_window_queue'[Len(focused_window_queue')] = sw_last'.id
           /\ (Len(focused_window_queue) = 5
                 /\ Retain(focused_window_queue, sw_last'.id) = focused_window_queue)
                => focused_window_queue' = Append(Tail(focused_window_queue), sw_last'.id)
C10_FocusQueue ==
    /\ [](Len(focused_window_queue) <= 5 /\ NoDuplicates(focused_window_queue))
    /\ [][C10_QueueStep]_vars
C10_Witness ==
    /\ sw_last.op = "opened" /\ sw_last.outcome = "queued"
    /\ sw_last.dropped # 0
    /\ Len(focused_window_queue) = 5
    /\ focused_window_queue[5] = sw_last.id
    /\ \A i \in 1..5 : focused_window_queue[i] # sw_last.dropped

\* the id is in some vector of the pid map
InPidMap(map, id) == \E p \in Pids : \E i \in 1..Len(map[p]) : map[p][i] = id
InQueue(q, id) == \E i \in 1..Len(q) : q[i] = id
\* the event is in the stream, not handled yet
Pending(ev, id) == \E i \in 1..Len(sw_pending) : sw_pending[i] = [ev |-> ev, id |-> id]
\* WindowClosed(id) has been handled
ClosedHandled(id) == sw_windows[id] = "closed" /\ ~Pending("closed", id)

\* C11 (as stated): once WindowClosed(id) has been handled, neither a vector
\* of the pid map nor the focus queue contains id, whatever the initial scan
\* and PID matching do in between (a closed id is never mapped again, so no
\* later WindowOpenedOrChanged for it arrives).
C11_AsStated ==
    \A id \in SwIds :
        ClosedHandled(id)
            => ~InPidMap(window_pid_map, id) /\ ~InQueue(focused_window_queue, id)

\* the batch of a swallow of child into parent, given whether the child is
\* first made tiling and whether it is first moved to the parent's workspace
SwallowBatch(parent, child, tiling, move, ws) ==
    << [a |-> "FocusWindow", id |-> parent] >>
    \o (IF tiling THEN << [a |-> "MoveWindowToTiling", id |-> child] >> ELSE << >>)
    \o (IF move THEN << [a |-> "MoveWindowToWorkspace", id |-> child, ws |-> ws] >> ELSE << >>)
    \o << [a |-> "ConsumeOrExpelWindowLeft", id |-> child],
          [a |-> "FocusWindow", id |-> child] >>
IsPrefix(p, q) == Len(p) <= Len(q) /\ \A i \in 1..Len(p) : p[i] = q[i]
\* the handler of the last event found a parent and called perform_swallow
SwallowAttempted == sw_last.op \in {"opened", "changed"} /\ sw_last.parent # 0
SwallowDone == SwallowAttempted /\ sw_last.err = NoErr

C13_AsStated ==
    /\ sw_last.op = "opened" => sw_last.outcome # "skipped"
    /\ sw_last.op = "changed" => sw_last.outcome = "skipped"

(***************************************************************************)
(* Properties of the singleton plugin.                                     *)
(***************************************************************************)
\* some window of the list matches the pattern of the name
LiveMatch(wins, name) ==
    \E i \in 1..Len(wins) :
        matches_app_id(wins[i], get_window_match_pattern(get_singleton(name)))
SgToggled == sg_last.op = "toggle"

\* C14: a toggle spawns the configured command, once, only if the window
\* bound to the name is not in the window list and no window of the list
\* matches the name's pattern (the configured app_id, else the basename of
\* the first token of the command); a toggle that returns Ok leaves the name
\* bound to a window of the list, which has the focus and for which
\* FocusWindow was the last action sent.
C14_SingletonToggle ==
    SgToggled =>
        /\ sg_last.spawned # << >>
             => /\ sg_last.spawned = << get_singleton(sg_last.name).command >>
                /\ ~HasWindow(sg_last.pre.windows, sg_last.pre.singletons[sg_last.name])
                /\ ~LiveMatch(sg_last.pre.windows, sg_last.name)
        /\ sg_last.err = NoErr
             => /\ singletons[sg_last.name] # NoWin
                /\ HasWindow(windows, singletons[sg_last.name])
                /\ focused_window = singletons[sg_last.name]
                /\ sg_last.acts # << >>
                /\ sg_last.acts[Len(sg_last.acts)]
                       = [a |-> "FocusWindow", id |-> singletons[sg_last.name]]
\* a launch among windows that do not match, after which the window appeared
\* and was bound
C14_Witness ==
    /\ SgToggled /\ sg_last.err = NoErr
    /\ sg_last.spawned # << >>
    /\ sg_last.pre.windows # << >>
    /\ HasWindow(windows, singletons[sg_last.name])

(***************************************************************************)
(* Properties of the window rule plugin and of workspace resolution.       *)
(***************************************************************************)
WrHandled == wr_last.op = "opened"
\* the first rule of the configuration that matches the window, 0 if none
FirstMatchingRule(id) ==
    IF \E i \in 1..Len(FileRules) : matches_rule(WrWindow(id), FileRules[i])
    THEN CHOOSE i \in 1..Len(FileRules) :
            /\ matches_rule(WrWindow(id), FileRules[i])
            /\ \A j \in 1..(i - 1) : ~matches_rule(WrWindow(id), FileRules[j])
    ELSE 0

\* C15 (as stated): an event's rules are tried in configured order up to the
\* first rule that matches the window and no further, whether the workspace
\* of that rule resolves or not and whether its move succeeds or not; at most
\* one move is issued, and by that rule.
C15_AsStated ==
    WrHandled =>
        LET first == FirstMatchingRule(wr_last.id)
            stop == IF first = 0 THEN Len(FileRules) ELSE first
        IN /\ wr_last.tried = [i \in 1..stop |-> i]
           /\ Len(wr_last.moves) <= 1
           /\ \A k \in 1..Len(wr_last.moves) : wr_last.moves[k].rule = first

\* the workspace of the list whose name is t, if any
Named(t) == {i \in 1..Len(wr_workspaces) : wr_workspaces[i].name = t}
\* C16 (as stated): for a target t and a workspace list in any order, both
\* resolutions return the workspace whose name equals t whenever there is
\* one, even if another workspace has idx t; the workspace with idx t is
\* returned only when no workspace is named t.
C16_AsStated ==
    wr_last.op = "resolve" =>
        LET res == {wr_last.utils, wr_last.rule} IN
        \A r \in res :
           IF Named(wr_last.target) # {}
           THEN \E i \in Named(wr_last.target) :
                    r = [id |-> wr_workspaces[i].id, key |-> wr_workspaces[i].name]
           ELSE r # NoMatch =>
                    \E i \in 1..Len(wr_workspaces) :
                        /\ wr_workspaces[i].idx = parse_u8(wr_last.target)
                        /\ r.id = wr_workspaces[i].id

(***************************************************************************)
(* Properties of the empty plugin.                                         *)
(***************************************************************************)
\* C17 (as stated): for a focused WorkspaceActivated of an empty workspace the
\* command run is the one configured under the workspace's name if there is
\* such an entry, and otherwise the one configured under its idx string;
\* exactly one command is run when an entry matches, none when the workspace
\* is not empty or the event is not focused.
C17_AsStated ==
    em_last.op = "activated" /\ em_last.err = NoErr =>
        LET ws == WorkspaceById(em_last.id)
            by_name == IF ws.name # NoStr THEN MapGet(em_config, ws.name) ELSE NoStr
            by_idx == MapGet(em_config, to_string(ws.idx))
        IN IF ~em_last.focused \/ ~em_last.empty THEN em_last.spawned = << >>
           ELSE em_last.view = "current" =>
                  /\ by_name # NoStr => em_last.spawned = << by_name >>
                  /\ by_name = NoStr /\ by_idx # NoStr => em_last.spawned = << by_idx >>
                  /\ Len(em_last.spawned) <= 1


(***************************************************************************)
(* Properties of the window order plugin.                                  *)
(***************************************************************************)
\* a reorder pass has computed its target permutation
WoPlanned == wo_last.op = "toggle" /\ wo_last.plan.stop # "none"
\* the places, in the snapshot the pass has read, of the tiled windows of the
\* focused workspace
WoTiled == {i \in DOMAIN wo_last.pre.windows :
               wo_last.pre.windows[i].here /\ ~wo_last.pre.windows[i].floating}
WoWeight(i) == get_window_order(wo_last.pre.windows[i].app_id)
WoColumn(i) == wo_last.pre.windows[i].col
WoTarget(i) == wo_last.plan.tgt[wo_last.pre.windows[i].id]
\* C18: the target permutation of a reorder pass gives the tiled windows of
\* the focused workspace the columns 1..n without a gap, by weight
\* descending; windows of equal weight keep the order of their current
\* columns, and windows of equal weight in one column keep the order of the
\* snapshot
C18_TargetPermutation ==
    WoPlanned =>
        /\ DOMAIN wo_last.plan.tgt = {wo_last.pre.windows[i].id : i \in WoTiled}
        /\ {WoTarget(i) : i \in WoTiled} = 1..Cardinality(WoTiled)
        /\ \A i, j \in WoTiled :
              \/ WoWeight(i) > WoWeight(j)
              \/ WoWeight(i) = WoWeight(j) /\ WoColumn(i) < WoColumn(j)
              \/ WoWeight(i) = WoWeight(j) /\ WoColumn(i) = WoColumn(j) /\ i < j
              => WoTarget(i) < WoTarget(j)
\* a pass over three windows of equal weight, two of them in one column and
\* the third, first in the snapshot, in the column to their right
C18_Witness ==
    /\ WoPlanned
    /\ \E i, j, k \in WoTiled :
          /\ i < j /\ j < k
          /\ WoWeight(i) = WoWeight(j) /\ WoWeight(j) = WoWeight(k)
          /\ WoColumn(j) = WoColumn(k) /\ WoColumn(i) > WoColumn(j)
          /\ WoTarget(j) < WoTarget(k) /\ WoTarget(k) < WoTarget(i)


\* C19: when all the tiled windows of the focused workspace have the same
\* weight, a reorder pass sends no FocusWindow and no MoveColumnToIndex,
\* whatever the layout, columns of several windows included
C19_AsStated ==
    wo_last.op = "toggle" /\ (\A i, j \in WoTiled : WoWeight(i) = WoWeight(j))
        => wo_last.acts = << >>


(***************************************************************************)
(* Properties of the plugin manager.                                       *)
(***************************************************************************)
PmInitialised == pm_last.op = "init"
\* the plugins of a list with the name
PmNamed(plugins, name) == {i \in 1..Len(plugins) : plugins[i].name = name}
PmOf(plugins, name) == plugins[CHOOSE i \in PmNamed(plugins, name) : TRUE]
\* C20: after PluginManager::init(config) a plugin is in the list iff the
\* config enables it; one that was in the list and is still enabled is the
\* same instance with its runtime state, holding the new config; one that was
\* not in the list and is enabled is newly constructed; one that was in the
\* list and is disabled is gone
C20_InitOrUpdate ==
    PmInitialised =>
        \A n \in PluginNames :
            /\ PmNamed(pm_plugins, n) # {} <=> plugin_enabled(pm_config, n)
            /\ PmNamed(pm_last.pre.plugins, n) # {} /\ plugin_enabled(pm_config, n) =>
                  /\ PmOf(pm_plugins, n).inst = PmOf(pm_last.pre.plugins, n).inst
                  /\ PmOf(pm_plugins, n).state = PmOf(pm_last.pre.plugins, n).state
                  /\ PmOf(pm_plugins, n).config = pm_config.version
            /\ PmNamed(pm_last.pre.plugins, n) = {} /\ plugin_enabled(pm_config, n) =>
                  /\ PmOf(pm_plugins, n).inst > pm_last.pre.created
                  /\ PmOf(pm_plugins, n).state = 0
                  /\ PmOf(pm_plugins, n).config = pm_config.version
\* a reload that keeps a plugin which has runtime state, constructs another
\* and removes a third
C20_Witness ==
    /\ PmInitialised
    /\ \E a, b, c \in PluginNames :
          /\ PmNamed(pm_last.pre.plugins, a) # {} /\ PmNamed(pm_plugins, a) # {}
          /\ PmOf(pm_plugins, a).state > 0 /\ PmOf(pm_plugins, a).config > 1
          /\ PmNamed(pm_last.pre.plugins, b) = {} /\ PmNamed(pm_plugins, b) # {}
          /\ PmNamed(pm_last.pre.plugins, c) # {} /\ PmNamed(pm_plugins, c) = {}

(***************************************************************************)
(* Properties of a reload.                                                 *)
(***************************************************************************)
\* the reload has just been served
Reloaded == pc = "responded" /\ last.op = "reload" /\ pm_last.op = "reload"
\* the reload kept the plugin enabled: the manager held it and the new
\* config enables it
KeptEnabled(name) ==
    /\ Reloaded /\ pm_last.err = NoErr
    /\ PmNamed(pm_last.pre.plugins, name) # {}
    /\ plugin_enabled(pm_config, name)
\* of the plugin nothing but the stored config has changed
OnlyConfigChanged(name) ==
    /\ PmNamed(pm_plugins, name) # {}
    /\ PmOf(pm_plugins, name) =
           [PmOf(pm_last.pre.plugins, name) EXCEPT !.config = pm_config.version]

\* C21: a reload that keeps a plugin enabled leaves its runtime state as it
\* was: every scratchpad slot's window id, visibility, previous focus and
\* dynamic config, and every singleton binding, are the same after
\* update_config as before, and of the plugin only the stored config changes
C21_ReloadKeepsRuntime ==
    /\ KeptEnabled("scratchpads") =>
           /\ ScratchpadsRuntime = pm_last.pre.scratchpads
           /\ OnlyConfigChanged("scratchpads")
    /\ KeptEnabled("singleton") =>
           /\ SingletonRuntime = pm_last.pre.singleton
           /\ OnlyConfigChanged("singleton")
\* a reload kept both plugins, with a visible scratchpad bound and a
\* singleton bound
C21_Witness ==
    /\ KeptEnabled("scratchpads") /\ KeptEnabled("singleton")
    /\ \E n \in Names : scratchpads[n] # NoWin /\ visibility[n] = "true"
    /\ \E n \in SingletonNames : singletons[n] # NoWin
    /\ pm_config.version = 2

\* the reload could not read or parse the file
LoadFailed == Reloaded /\ pm_last.status \in {"unreadable", "unparsable"}
\* C22: if a reload cannot read or parse the config file, the handler's
\* config, the manager's plugin set and each plugin's stored config are as
\* before the reload, and the reload is answered with Error
C22_FailedReloadKeepsConfig ==
    LoadFailed =>
        /\ pm_config = pm_last.pre.config
        /\ pm_plugins = pm_last.pre.plugins
        /\ pm_created = pm_last.pre.created
        /\ last.response = "Error"
        /\ last.err # NoErr
\* a reload of a daemon that holds plugins found a file it could not parse
C22_Witness ==
    /\ LoadFailed /\ pm_last.status = "unparsable"
    /\ Len(pm_plugins) = 2
    /\ pm_config.version = 1

(***************************************************************************)
(* Properties of the daemon.                                               *)
(***************************************************************************)
Holding == {c \in ConnIds : dm_conns[c].pc = "holding"}
\* C23: at any time at most one client request is being processed by the
\* command handler and the plugins: the requests of concurrent connections
\* are processed one after another and their calls never interleave
C23_OneRequestAtATime == Cardinality(Holding) <= 1 /\ Contiguous(dm_calls)
\* a request is being processed after its first call while another
\* connection's task waits for the handler and a third has been served
C23_Witness ==
    \E c1, c2, c3 \in ConnIds :
        /\ dm_conns[c1].pc = "holding" /\ dm_conns[c1].step = 1
        /\ dm_conns[c2].pc = "waiting"
        /\ dm_conns[c3].pc \in {"writing", "done"} /\ dm_conns[c3].step > 1

\* the Shutdown request of some connection has been processed
ShutdownProcessed ==
    \E c \in ConnIds : dm_conns[c].kind = "Shutdown" /\ dm_conns[c].pc \in {"writing", "done"}
\* C24: after a Shutdown request has been processed the main loop eventually
\* leaves its select loop and removes the socket file
C24_ShutdownStops == ShutdownProcessed ~> (dm_main.pc = "returned" /\ ~dm_socket)
\* the notifier fired while the main task was busy in the accept arm, and
\* the loop was left by the notifier and the socket file removed
C24_Witness ==
    /\ dm_notify.fired = "accepted"
    /\ dm_main = [pc |-> "returned", conn |-> NoConn, exit |-> "shutdown"]
    /\ ~dm_socket

(***************************************************************************)
(* Properties of the distribution of events.                               *)
(***************************************************************************)
\* the kind of the s-th event taken from the channel, in the state where it
\* is being distributed
Distributing(s, kind) == ev_dist.seq = s /\ ev_dist.kind = kind
\* distribute_event has returned for the s-th event
Distributed(s) == ev_dist.seq > s \/ (ev_dist.seq = s /\ ev_dist.kind = "none" /\ s > 0)
PlaceOf(name) == CHOOSE i \in 1..Len(ev_plugins) : ev_plugins[i] = name

\* C25 as stated: if one plugin's handle_event is slow or never returns, the
\* other interested plugins still receive that event, and later events are
\* still distributed: every event that is being distributed reaches every
\* plugin interested in it
C25_AsStated ==
    \A s \in 1..MaxEvEvents : \A kind \in EventKinds : \A p \in EvNames :
        (Distributing(s, kind) /\ is_interested_in_event(p, kind))
            ~> (<< s, p >> \in ev_delivered)

\* C26: when a plugin's handle_event returns an error the event is dropped
\* for that plugin only: once distribute_event has returned for an event,
\* every plugin interested in it has received it, whichever calls failed,
\* and the manager's list is as it was
DeliveredTo(s) == {p \in EvNames : << s, p >> \in ev_delivered}
InterestedIn(s) == {p \in EvNames : is_interested_in_event(p, ev_dist.taken[s])}
InList(p) == \E i \in 1..Len(ev_plugins) : ev_plugins[i] = p
C26_ErrorDropsForOneOnly ==
    /\ \A s \in 1..ev_dist.seq : Distributed(s) => DeliveredTo(s) = InterestedIn(s)
    /\ \A s \in 1..ev_dist.seq : \A p \in EvNames : << s, p >> \in ev_errors => InList(p)
\* a plugin failed on the first event, the plugin behind it in the list
\* received that event, and the failing plugin received the second event
C26_Witness ==
    \E p, q \in EvNames :
        /\ << 1, p >> \in ev_errors
        /\ PlaceOf(p) < PlaceOf(q)
        /\ << 1, q >> \in ev_delivered
        /\ << 2, p >> \in ev_delivered
        /\ Distributed(2)

\* C27 as stated: a plugin that does not override is_interested_in_event is
\* forwarded every event
C27_AsStated ==
    \A s \in 1..MaxEvEvents : Distributed(s) => << s, "window_rule" >> \in ev_delivered

(***************************************************************************)
(* Properties of the regex caches.                                         *)
(***************************************************************************)
\* update_config has run on the plugin in the init just made
Updated(n) ==
    /\ PmInitialised
    /\ PmNamed(pm_last.pre.plugins, n) # {} /\ PmNamed(pm_plugins, n) # {}
    /\ PmOf(pm_plugins, n).inst = PmOf(pm_last.pre.plugins, n).inst
\* C28 as stated: after update_config has run on a plugin that owns a regex
\* cache, that cache is empty
C28_AsStated ==
    \A n \in PluginNames \cap CacheOwners : Updated(n) => PmOf(pm_plugins, n).cache = {}

(***************************************************************************)
(* Properties of calculate_position and extract_margin.                    *)
(***************************************************************************)
\* C29 as stated: for every direction, output size, window size and margin
\* m, extract_margin of the position that calculate_position gives for m is m
C29_AsStated == requests = 2 => mg_out = Word(mg_in.margin)

(***************************************************************************)
(* The single-move case of a reorder pass.                                 *)
(***************************************************************************)
\* the move loop of the pass has run to its end
WoLooped == WoPlanned /\ wo_last.plan.stop # "running"
\* the arrangement the move loop started from
WoStart ==
    IF wo_last.plan.chosen # << >> THEN wo_last.plan.chosen[1].cur ELSE wo_last.plan.cur
\* moving the window from its column to its target column, the windows
\* between shifting by one, gives the target permutation
SolvesInOne(id) ==
    /\ WoStart[id] # wo_last.plan.tgt[id]
    /\ shift_columns(WoStart, id, WoStart[id], wo_last.plan.tgt[id]) = wo_last.plan.tgt
WoIssued == SelectSeq(wo_last.acts, LAMBDA a : a.a = "MoveColumnToIndex")
\* C30: when one single column move turns the arrangement a reorder pass has
\* read into the target permutation, the pass plans exactly one move, of a
\* window whose move does so, to its target column; it sends at most one
\* MoveColumnToIndex, and when no request of the pass fails it sends exactly
\* one, for that column, right after the FocusWindow of that window
C30_SingleMove ==
    WoLooped /\ (\E id \in DOMAIN wo_last.plan.tgt : SolvesInOne(id)) =>
        /\ Len(wo_last.plan.moves) = 1
        /\ LET m == wo_last.plan.moves[1] IN
           /\ SolvesInOne(m[1])
           /\ m[2] = WoStart[m[1]] /\ m[3] = wo_last.plan.tgt[m[1]]
           /\ Len(WoIssued) <= 1
           /\ \A k \in DOMAIN wo_last.acts :
                 wo_last.acts[k].a = "MoveColumnToIndex" =>
                     /\ wo_last.acts[k].id = m[3]
                     /\ k > 1
                     /\ wo_last.acts[k - 1] = [a |-> "FocusWindow", id |-> m[1], ok |-> TRUE]
           /\ ~wo_last.failed => Len(WoIssued) = 1 /\ WoIssued[1].ok
\* columns [editor, misc, term] with the weights 5, 0 and 10: the pass plans
\* the single move of term from column 3 to column 1 and sends it
C30_Witness ==
    /\ WoLooped /\ ~wo_last.failed
    /\ \E e, m, t \in WoTiled :
          /\ wo_last.pre.windows[e].app_id = S_editor /\ WoColumn(e) = 1
          /\ wo_last.pre.windows[m].app_id = S_misc /\ WoColumn(m) = 2
          /\ wo_last.pre.windows[t].app_id = S_term /\ WoColumn(t) = 3
          /\ WoWeight(e) = 5 /\ WoWeight(m) = 0 /\ WoWeight(t) = 10
          /\ wo_last.plan.moves = << << wo_last.pre.windows[t].id, 3, 1 >> >>
          /\ WoIssued = << [a |-> "MoveColumnToIndex", id |-> 1, ok |-> TRUE] >>

(***************************************************************************)
(* The choice of the move in each iteration of the move loop.              *)
(***************************************************************************)
\* the candidates of the k-th iteration that has chosen a move
WoCandidates(k) ==
    {candidate(wo_last.plan.chosen[k].cur, wo_last.plan.tgt, id) :
        id \in {w \in DOMAIN wo_last.plan.tgt :
                   wo_last.plan.chosen[k].cur[w] # wo_last.plan.tgt[w]}}
WoCompletes(c) == c.count = Cardinality(DOMAIN wo_last.plan.tgt)
\* C31: in every iteration of the move loop the chosen move has the highest
\* score among the candidates, among those the smallest distance, and among
\* the candidates equal in both a move of the focused window is preferred
\* when the move completes the permutation
C31_BestMove ==
    WoPlanned =>
        \A k \in DOMAIN wo_last.plan.chosen :
            LET m == wo_last.plan.chosen[k].move IN
            /\ m \in WoCandidates(k)
            /\ \A c \in WoCandidates(k) : c.count <= m.count
            /\ \A c \in WoCandidates(k) : c.count = m.count => m.distance <= c.distance
            /\ \A c \in WoCandidates(k) :
                  c.count = m.count /\ c.distance = m.distance /\ WoCompletes(c)
                  /\ c.id = wo_last.focused => m.id = wo_last.focused
\* an iteration with a candidate of the same score as the chosen move and a
\* larger distance
C31_Witness ==
    /\ WoPlanned
    /\ \E k \in DOMAIN wo_last.plan.chosen : \E c \in WoCandidates(k) :
          /\ c.count = wo_last.plan.chosen[k].move.count
          /\ c.distance > wo_last.plan.chosen[k].move.distance

(***************************************************************************)
(* Termination of the move loop.                                           *)
(***************************************************************************)
MlRan == ml_out # NoPlan
\* C32: for windows in the distinct columns 1..n and every assignment of
\* weights the move loop ends with every window in its target column, neither
\* at the cap of 100 iterations nor on 'no valid move'
C32_AsStated ==
    MlRan => /\ ml_out.cur = ml_out.tgt
             /\ ml_out.stop \in {"already_correct", "all_correct"}
             /\ ml_out.iterations < max_iterations

(***************************************************************************)
(* The focus after a reorder pass.                                         *)
(***************************************************************************)
WoMoved == \E k \in DOMAIN wo_last.acts : wo_last.acts[k].a = "MoveColumnToIndex"
WoLastAct == wo_last.acts[Len(wo_last.acts)]
SrPatternsOf(key) ==
    CASE key.is = "absent" -> {}
      [] key.is = "string" -> {key.s}
      [] key.is = "list" -> {key.v[i] : i \in DOMAIN key.v}
SrSomeMatches(app_key, title_key, id) ==
    \/ AppIdOf(id) # NoStr /\ \E p \in SrPatternsOf(app_key) : is_match(p, AppIdOf(id))
    \/ \E p \in SrPatternsOf(title_key) : is_match(p, TitleOf(id))
\* the window matches the parent criteria of the rule: the rule names none, or
\* one of its patterns matches
SrParentMatches(id) ==
    \/ sr_in.parent_app_id.is = "absent" /\ sr_in.parent_title.is = "absent"
    \/ SrSomeMatches(sr_in.parent_app_id, sr_in.parent_title, id)
\* the entries of the queue that qualify as parent
SrQualifies(i) ==
    /\ sr_in.queue[i] # sr_in.child
    /\ sr_in.queue[i] \in sr_in.alive
    /\ SrParentMatches(sr_in.queue[i])
\* C34: when the focused window is the new child, the parent is the most
\* recently queued window that is not the child, is alive and matches the
\* parent criteria, and there is no parent when no entry qualifies; when
\* another window is focused, it is the parent iff it matches the criteria
C34_ParentChoice ==
    sr_out.kind = "parent" /\ sr_in.focused # NoWin =>
        IF sr_in.focused = sr_in.child
        THEN IF \E i \in DOMAIN sr_in.queue : SrQualifies(i)
             THEN \E i \in DOMAIN sr_in.queue :
                     /\ SrQualifies(i)
                     /\ \A j \in DOMAIN sr_in.queue : SrQualifies(j) => j <= i
                     /\ sr_out.parent = sr_in.queue[i]
             ELSE sr_out.parent = NoWin
        ELSE /\ SrParentMatches(sr_in.focused) => sr_out.parent = sr_in.focused
             /\ ~SrParentMatches(sr_in.focused) => sr_out.parent = NoWin
\* the child is focused and is the newest of the queue, the entry before it
\* is closed, the next does not match, and an older one is the parent
C34_Witness ==
    /\ sr_out.kind = "parent" /\ sr_in.focused = sr_in.child
    /\ Len(sr_in.queue) = 4 /\ sr_in.queue[4] = sr_in.child
    /\ sr_in.queue[3] \notin sr_in.alive
    /\ sr_in.queue[2] \in sr_in.alive /\ ~SrParentMatches(sr_in.queue[2])
    /\ sr_out.parent = sr_in.queue[1]

\* C35: a rule whose child_app_id and child_title are both without a pattern,
\* absent or an empty list, accepts every new window; any other rule accepts
\* a window iff one of its app_id patterns matches the app_id or one of its
\* title patterns matches the title
C35_AsStated ==
    sr_out.kind = "child" =>
        (sr_out.accepted <=>
            \/ SrPatternsOf(sr_in.child_app_id) = {} /\ SrPatternsOf(sr_in.child_title) = {}
            \/ SrSomeMatches(sr_in.child_app_id, sr_in.child_title, sr_in.child))

(***************************************************************************)
(* The focus after a scratchpad is hidden.                                 *)
(***************************************************************************)
\* the toggle has hidden the slot's window, no request failing
Hidden ==
    /\ Toggled /\ ~last.failed /\ last.err = NoErr
    /\ InPath(last.path, "hidden") \/ InPath(last.path, "moved")
HdSlot == last.pre.scratchpads[last.name]
HdPrevious == last.pre.previous_focused_windows[last.name]
\* the windows of the focused workspace in the order of the compositor's
\* list, without the scratchpad
HdOthers ==
    LET Here(w) == w.id # HdSlot /\ w.workspace_id = WsIdOf(last.pre.focused_ws)
    IN SelectSeq(last.pre.windows, Here)
\* the window focused when the slot was shown is closed or on another
\* workspace
HdPreviousAway ==
    /\ HdPrevious \notin {NoWin, NoEntry}
    /\ \/ ~HasWindow(last.pre.windows, HdPrevious)
       \/ WinById(last.pre.windows, HdPrevious).workspace_id # WsIdOf(last.pre.focused_ws)
\* the FocusWindow actions sent while the window was hidden: those before the
\* window is shown again on the focused workspace
HdFocusActs ==
    LET IsFocus(a) == a.a = "FocusWindow" /\ a.id # HdSlot
    IN SelectSeq(last.acts, IsFocus)
\* C36: hiding a scratchpad sends no FocusWorkspace action; when the window
\* focused before the show is closed or on another workspace, the window at
\* index floor(n/2) of the n windows of the focused workspace, in list order
\* and without the scratchpad, is focused, and none when n = 0
C36_AsStated ==
    Hidden =>
        /\ \A k \in DOMAIN last.acts : last.acts[k].a # "FocusWorkspace"
        /\ HdPreviousAway =>
              IF Len(HdOthers) = 0 THEN HdFocusActs = << >>
              ELSE HdFocusActs = << [a |-> "FocusWindow",
                                     id |-> HdOthers[(Len(HdOthers) \div 2) + 1].id] >>

(***************************************************************************)
(* The event pump                                                          *)
(***************************************************************************)
EpIsPrefix(s, t) == Len(s) <= Len(t) /\ \A i \in 1..Len(s) : s[i] = t[i]
\* C37: a refused connection and an ended stream make the pump sleep and
\* connect again, the pump returns only when the channel is closed, and,
\* the pump being scheduled, every event the compositor delivers on an
\* accepted connection is published on the channel, in the order of delivery,
\* unless the channel is closed
C37_PumpPublishes ==
    /\ [](ep_pc = "stopped" => ~ep_open)
    /\ [](EpIsPrefix(ep_channel, ep_accepted))
    /\ [][ep_pc = "connecting" /\ ep_pc' # "connecting"
            => ep_pc' \in {"sleeping", "reading"}]_vars
    /\ [][ep_pc = "reading" /\ ep_pc' # "reading" /\ ep_open
            => ep_pc' = "sleeping"]_vars
    /\ (ep_pc = "sleeping") ~> (ep_pc = "connecting")
    /\ \A i \in 1..MaxEpEvents :
           (Len(ep_accepted) >= i) ~> (Len(ep_channel) >= i \/ ~ep_open)
\* events of two connections are published, after a refused connection, an
\* ended stream and one notification
C37_Witness ==
    /\ ep_open
    /\ ep_notified = 1
    /\ failures >= 2
    /\ Len(ep_channel) = MaxEpEvents
    /\ ep_channel = ep_accepted
    /\ \E i, j \in 1..Len(ep_channel) : ep_channel[i].conn < ep_channel[j].conn

(***************************************************************************)
(* The response to Shutdown                                                *)
(***************************************************************************)
\* C38: the task of a Shutdown request that has called notify_one and has
\* its Success response still to write is not dropped: run_daemon_loop has
\* not left its loop for a shutdown request and returned while such a task
\* exists
C38_AsStated ==
    \A c \in ConnIds :
        /\ dm_conns[c].kind = "Shutdown"
        /\ dm_conns[c].pc = "writing"
        => ~(dm_main.pc = "returned" /\ dm_main.exit = "shutdown")

(***************************************************************************)
(* The window a hide gives the focus back to                               *)
(***************************************************************************)
\* C39: the window recorded as focused before the show of a slot is never the
\* window bound to the slot
C39_AsStated ==
    \A n \in Names :
        scratchpads[n] # NoWin => previous_focused_windows[n] # scratchpads[n]

(***************************************************************************)
(* One plugin per name                                                     *)
(***************************************************************************)
\* C40: after every init, whatever was enabled, disabled or enabled again
\* and whichever update failed, the list holds at most one plugin of a name
C40_OnePluginPerName ==
    \A n \in PluginNames : Cardinality(PmNamed(pm_plugins, n)) <= 1
\* a third init has enabled again a plugin that the second had disabled, and
\* has made again one whose update failed, the list holding both
C40_Witness ==
    /\ PmInitialised
    /\ requests = 3
    /\ \E a, b \in PluginNames :
          /\ a # b
          /\ pm_last.failing = {a}
          /\ PmNamed(pm_last.pre.plugins, a) # {} /\ PmNamed(pm_plugins, a) # {}
          /\ PmOf(pm_plugins, a).inst = pm_created
          /\ PmNamed(pm_last.pre.plugins, b) = {} /\ PmNamed(pm_plugins, b) # {}
          /\ PmOf(pm_plugins, b).inst < pm_created
          /\ PmOf(pm_plugins, b).inst > 1

====
